---- MODULE Spec2Model ----
(***************************************************************************)
(* Verification model of carton_pricing/utils.py: the AST based safe       *)
(* evaluators (safe_eval_expr, safe_eval) and the dynamic FormulaEngine    *)
(* (dependency lists, Kahn topological order, validate, cached eval).      *)
(*                                                                         *)
(* Expressions are modelled as the syntax trees ast.parse produces.        *)
(* Python numbers are exact rationals [t |-> "num", n, d] (d > 0, lowest   *)
(* terms); bool is the number 1 / 0, as bool is a subclass of int.         *)
(***************************************************************************)
EXTENDS Integers, Sequences, FiniteSets, TLC

\* ------------------------------------------------------------------ bounds
\* Largest number of expression nodes of an expression handed to the evaluators.
MaxNodes == 4
\* The namespace binds A to one of 0..MaxVal.
MaxVal == 1
\* A formula of the engine references at most MaxRefs names.
MaxRefs == 2
\* Depth at which the interpreter gives up a recursion (RecursionError).
RecursionLimit == 6
\* The per-key counter of expression evaluations stops counting here.
EvalCountCap == 2
\* Widths, required and stocked, are whole numbers up to MaxWidth.
MaxWidth == 6
\* A catalog lists at most MaxCatalog widths.
MaxCatalog == 2
\* The guard of _replace_fn, 2000 in the code, scaled down: the loop body runs
\* while guard <= GuardLimit.
GuardLimit == 3
\* Every text of at most MaxLen characters over a small alphabet is translated.
MaxLen == 3

VARIABLES
    expr,       \* evaluator: the parsed expression under evaluation
    variables,  \* evaluator: the namespace handed in by the caller
    out,        \* evaluator: outcome of the last safe_eval / safe_eval_expr call
    formulas,   \* engine: self.formulas, key -> expression
    deps,       \* engine: self.deps, key -> the names its expression depends on
    vars,       \* engine: self.vars, seed name -> value
    cache,      \* engine: self.cache
    nEvals,     \* engine: per key, successful evaluations of its expression
    last,       \* engine: outcome of the last public call
    plan,       \* engine client: keys still to resolve, in topo_order() order
    required_w,             \* sheet chooser: the width one cut needs
    fixed_widths,           \* sheet chooser: the catalog handed in, as a list
    waste_warn_threshold,   \* sheet chooser: the threshold, in percent
    choice,     \* sheet chooser: outcome of the last choose_per_sheet_and_width call
    raw,        \* translator: the Excel-like text handed to excel_to_python
    translated, \* translator: outcome of the last excel_to_python call
    k15,        \* layout: the width one cut needs (K15)
    catalog,    \* layout: the sheet widths handed in (widths, fixed_widths), as a list
    table,      \* layout: outcome of the last table / chooser / final-stage call
    charges,    \* priorities: the ExtraCharge rows of the database
    saves,      \* priorities: per request, how far its ExtraCharge.save() has come
    pc          \* which component this behaviour exercises

sheetVars == <<required_w, fixed_widths, waste_warn_threshold, choice>>

excelVars == <<raw, translated>>

layoutVars == <<k15, catalog, table>>

priorityVars == <<charges, saves>>

vars_all == <<expr, variables, out, formulas, deps, vars, cache, nEvals, last, plan,
              sheetVars, excelVars, layoutVars, priorityVars, pc>>

\* ------------------------------------------------------------ small helpers
Abs(x) == IF x < 0 THEN -x ELSE x

Min2(a, b) == IF a <= b THEN a ELSE b

Max2(a, b) == IF a >= b THEN a ELSE b

RECURSIVE Gcd(_, _)
Gcd(a, b) == IF b = 0 THEN a ELSE Gcd(b, a % b)

Range(s) == {s[i] : i \in 1..Len(s)}

EmptyMap == [x \in {} |-> 0]

\* ------------------------------------------------------------------ values
Rat(n, d) ==
    LET s == IF d < 0 THEN -1 ELSE 1
        g == Gcd(Abs(n), Abs(d))
    IN  [t |-> "num", n |-> (s * n) \div g, d |-> (s * d) \div g]

Number(n) == [t |-> "num", n |-> n, d |-> 1]

Fn(f) == [t |-> "fn", f |-> f]

IsNum(v) == v.t = "num"

Truthy(v) == IF IsNum(v) THEN v.n # 0 ELSE IF v.t = "str" THEN v.s # <<>> ELSE TRUE

Bool(b) == IF b THEN Number(1) ELSE Number(0)

\* floor(a / b) for numbers a, b with b # 0
FloorQuot(a, b) ==
    LET s == IF b.n < 0 THEN -1 ELSE 1
    IN  (s * a.n * b.d) \div (s * a.d * b.n)

\* ---------------------------------------------------------------- outcomes
Ok(v) == [st |-> "ok", v |-> v]

Raise(exc, msg, arg) == [st |-> "raise", exc |-> exc, msg |-> msg, arg |-> arg]

\* -------------------------------------------------------------- whitelist
_SAFE_FUNCS == {"ceil", "floor", "round", "max", "min", "abs", "int"}

\* The node classes isinstance(node, _ALLOWED_NODES) accepts.
_ALLOWED_NODES ==
    {"Expression", "BinOp", "UnaryOp", "Constant",
     "Add", "Sub", "Mult", "Div", "Mod", "Pow", "FloorDiv",
     "USub", "UAdd", "Compare", "Eq", "NotEq", "Gt", "GtE",
     "Lt", "LtE", "BoolOp", "And", "Or", "Name", "Load",
     "IfExp", "Call"}

\* ------------------------------------------------------------ syntax trees
Num(v) == [kind |-> "Constant", value |-> Number(v)]

Name(id) == [kind |-> "Name", id |-> id]

BinOp(op, l, r) == [kind |-> "BinOp", op |-> op, left |-> l, right |-> r]

UnaryOp(op, e) == [kind |-> "UnaryOp", op |-> op, operand |-> e]

Compare(op, l, r) == [kind |-> "Compare", op |-> op, left |-> l, right |-> r]

BoolOp(op, l, r) == [kind |-> "BoolOp", op |-> op, left |-> l, right |-> r]

IfExp(c, a, b) == [kind |-> "IfExp", test |-> c, body |-> a, orelse |-> b]

Call(f, a) == [kind |-> "Call", func |-> f, arg |-> a]

Attribute(e) == [kind |-> "Attribute", value |-> e]

Tuple(elts) == [kind |-> "Tuple", elts |-> elts]

\* A string constant; its value is the text between the quotes.
Str(chars) == [kind |-> "Constant", value |-> [t |-> "str", s |-> chars]]

Leaf(kind) == [kind |-> kind]

Expression(e) == [kind |-> "Expression", body |-> e]

\* ast.iter_child_nodes: the child nodes in field order
Children(node) ==
    CASE node.kind = "Expression" -> <<node.body>>
      [] node.kind = "BinOp"      -> <<node.left, Leaf(node.op), node.right>>
      [] node.kind = "UnaryOp"    -> <<Leaf(node.op), node.operand>>
      [] node.kind = "BoolOp"     -> <<Leaf(node.op), node.left, node.right>>
      [] node.kind = "Compare"    -> <<node.left, Leaf(node.op), node.right>>
      [] node.kind = "IfExp"      -> <<node.test, node.body, node.orelse>>
      [] node.kind = "Call"       -> <<node.func, node.arg>>
      [] node.kind = "Name"       -> <<Leaf("Load")>>
      [] node.kind = "Attribute"  -> <<node.value, Leaf("Load")>>
      [] node.kind = "Tuple"      -> node.elts \o <<Leaf("Load")>>
      [] OTHER                    -> <<>>

\* ast.walk: breadth first, from a queue of nodes still to visit
RECURSIVE WalkFrom(_)
WalkFrom(todo) ==
    IF todo = <<>> THEN <<>>
    ELSE <<Head(todo)>> \o WalkFrom(Tail(todo) \o Children(Head(todo)))

Walk(tree) == WalkFrom(<<tree>>)

\* ------------------------------------------------- the interpreter's eval
\* Python's arithmetic on two values; a function object is no operand.
ApplyBinOp(op, a, b) ==
    IF ~IsNum(a) \/ ~IsNum(b) THEN Raise("TypeError", "unsupported operand", op)
    ELSE CASE op = "Add"  -> Ok(Rat(a.n * b.d + b.n * a.d, a.d * b.d))
           [] op = "Sub"  -> Ok(Rat(a.n * b.d - b.n * a.d, a.d * b.d))
           [] op = "Mult" -> Ok(Rat(a.n * b.n, a.d * b.d))
           [] op = "Div"  ->
                IF b.n = 0 THEN Raise("ZeroDivisionError", "division by zero", op)
                ELSE Ok(Rat(a.n * b.d, a.d * b.n))
           [] op = "FloorDiv" ->
                IF b.n = 0 THEN Raise("ZeroDivisionError", "division by zero", op)
                ELSE Ok(Number(FloorQuot(a, b)))
           [] op = "Mod"  ->
                IF b.n = 0 THEN Raise("ZeroDivisionError", "division by zero", op)
                ELSE LET q == FloorQuot(a, b)
                     IN  Ok(Rat(a.n * b.d - q * b.n * a.d, a.d * b.d))
           [] op = "Pow"  ->
                IF b.d # 1 THEN Raise("Unsupported", "fractional exponent", op)
                ELSE IF b.n >= 0 THEN Ok(Rat(a.n ^ b.n, a.d ^ b.n))
                ELSE IF a.n = 0
                THEN Raise("ZeroDivisionError", "0.0 cannot be raised to a negative power", op)
                ELSE Ok(Rat((IF a.n < 0 /\ (-b.n) % 2 = 1 THEN -1 ELSE 1) * (a.d ^ (-b.n)),
                            Abs(a.n) ^ (-b.n)))

ApplyUnaryOp(op, a) ==
    CASE op = "Not"  -> Ok(Bool(~Truthy(a)))
      [] op = "USub" -> IF IsNum(a) THEN Ok(Rat(-a.n, a.d))
                        ELSE Raise("TypeError", "bad operand type", op)
      [] op = "UAdd" -> IF IsNum(a) THEN Ok(a)
                        ELSE Raise("TypeError", "bad operand type", op)

ApplyCompare(op, a, b) ==
    IF op = "Eq" THEN Ok(Bool(a = b))
    ELSE IF op = "NotEq" THEN Ok(Bool(a # b))
    ELSE IF ~IsNum(a) \/ ~IsNum(b) THEN Raise("TypeError", "not supported between", op)
    ELSE LET x == a.n * b.d
             y == b.n * a.d
         IN  CASE op = "Lt"  -> Ok(Bool(x < y))
               [] op = "LtE" -> Ok(Bool(x <= y))
               [] op = "Gt"  -> Ok(Bool(x > y))
               [] op = "GtE" -> Ok(Bool(x >= y))

\* round(x): to the nearest integer, a tie to the even one
RoundHalfEven(a) ==
    LET q == a.n \div a.d
        twice == 2 * (a.n - q * a.d)
    IN  IF twice < a.d THEN q
        ELSE IF twice > a.d THEN q + 1
        ELSE IF q % 2 = 0 THEN q ELSE q + 1

\* A call of a whitelisted function with one positional argument.
ApplyFn(f, a) ==
    IF f \in {"max", "min"} THEN Raise("TypeError", "object is not iterable", f)
    ELSE IF ~IsNum(a) THEN Raise("TypeError", "bad argument type", f)
    ELSE CASE f = "abs"   -> Ok(Rat(Abs(a.n), a.d))
           [] f = "floor" -> Ok(Number(a.n \div a.d))
           [] f = "ceil"  -> Ok(Number(-((-a.n) \div a.d)))
           [] f = "int"   -> Ok(Number(IF a.n >= 0 THEN a.n \div a.d
                                        ELSE -((-a.n) \div a.d)))
           [] f = "round" -> Ok(Number(RoundHalfEven(a)))

\* The locals of the eval call, {**_SAFE_FUNCS, **namespace}
Lookup(id, namespace) ==
    IF id \in DOMAIN namespace THEN Ok(namespace[id])
    ELSE IF id \in _SAFE_FUNCS THEN Ok(Fn(id))
    ELSE Raise("NameError", "name is not defined", id)

Ran(r, kind) == [res |-> r.res, ran |-> r.ran \cup {kind}]

\* eval(code, {"__builtins__": {}}, locals): the value or the exception of
\* node e, and the kinds of the nodes whose evaluation was started.
RECURSIVE EvalNode(_, _)
EvalNode(e, namespace) ==
    CASE e.kind = "Constant" -> [res |-> Ok(e.value), ran |-> {"Constant"}]
      [] e.kind = "Name" -> [res |-> Lookup(e.id, namespace), ran |-> {"Name"}]
      [] e.kind \in {"BinOp", "Compare"} ->
            LET l == EvalNode(e.left, namespace)
            IN  IF l.res.st = "raise" THEN Ran(l, e.kind)
                ELSE LET r == EvalNode(e.right, namespace)
                     IN  IF r.res.st = "raise"
                         THEN [res |-> r.res, ran |-> l.ran \cup r.ran \cup {e.kind}]
                         ELSE [res |-> IF e.kind = "BinOp"
                                       THEN ApplyBinOp(e.op, l.res.v, r.res.v)
                                       ELSE ApplyCompare(e.op, l.res.v, r.res.v),
                               ran |-> l.ran \cup r.ran \cup {e.kind}]
      [] e.kind = "UnaryOp" ->
            LET a == EvalNode(e.operand, namespace)
            IN  IF a.res.st = "raise" THEN Ran(a, e.kind)
                ELSE [res |-> ApplyUnaryOp(e.op, a.res.v), ran |-> a.ran \cup {e.kind}]
      [] e.kind = "BoolOp" ->
            LET l == EvalNode(e.left, namespace)
            IN  IF l.res.st = "raise" THEN Ran(l, e.kind)
                ELSE IF (e.op = "And") = Truthy(l.res.v)
                THEN LET r == EvalNode(e.right, namespace)
                     IN  [res |-> r.res, ran |-> l.ran \cup r.ran \cup {e.kind}]
                ELSE Ran(l, e.kind)
      [] e.kind = "IfExp" ->
            LET c == EvalNode(e.test, namespace)
            IN  IF c.res.st = "raise" THEN Ran(c, e.kind)
                ELSE LET r == EvalNode(IF Truthy(c.res.v) THEN e.body ELSE e.orelse,
                                       namespace)
                     IN  [res |-> r.res, ran |-> c.ran \cup r.ran \cup {e.kind}]
      [] e.kind = "Call" ->
            LET f == EvalNode(e.func, namespace)
            IN  IF f.res.st = "raise" THEN Ran(f, e.kind)
                ELSE LET a == EvalNode(e.arg, namespace)
                     IN  IF a.res.st = "raise"
                         THEN [res |-> a.res, ran |-> f.ran \cup a.ran \cup {e.kind}]
                         ELSE [res |-> IF IsNum(f.res.v)
                                       THEN Raise("TypeError", "object is not callable", "Call")
                                       ELSE ApplyFn(f.res.v.f, a.res.v),
                               ran |-> f.ran \cup a.ran \cup {e.kind}]
      [] e.kind = "Attribute" ->
            LET a == EvalNode(e.value, namespace)
            IN  IF a.res.st = "raise" THEN Ran(a, e.kind)
                ELSE [res |-> Raise("AttributeError", "object has no attribute", "b"),
                      ran |-> a.ran \cup {e.kind}]

\* ------------------------------------------------------- the safe evaluators
Disallowed(node) == node.kind \notin _ALLOWED_NODES

UnknownName(node, vs) ==
    node.kind = "Name" /\ node.id \notin DOMAIN vs /\ node.id \notin _SAFE_FUNCS

\* The loop over ast.walk(tree) of _parse: index of the first node that makes
\* it raise, 0 when the loop runs to its end.
RECURSIVE FirstDisallowed(_, _)
FirstDisallowed(nodes, i) ==
    IF i > Len(nodes) THEN 0
    ELSE IF Disallowed(nodes[i]) THEN i
    ELSE FirstDisallowed(nodes, i + 1)

\* The loop over ast.walk(tree) of safe_eval, which makes both tests per node.
RECURSIVE FirstOffending(_, _, _)
FirstOffending(nodes, i, vs) ==
    IF i > Len(nodes) THEN 0
    ELSE IF Disallowed(nodes[i]) \/ UnknownName(nodes[i], vs) THEN i
    ELSE FirstOffending(nodes, i + 1, vs)

\* A variant that inspects the root expression node only.
_parse_root_only(tree) ==
    IF Disallowed(tree.body)
    THEN Raise("ValueError", "Disallowed expression node", tree.body.kind)
    ELSE Ok(tree)

\* _parse: every node of ast.walk(tree) is checked, then the tree is returned.
_parse(tree) ==
    LET nodes == Walk(tree)
        i == FirstDisallowed(nodes, 1)
    IN  IF i # 0 THEN Raise("ValueError", "Disallowed expression node", nodes[i].kind)
        ELSE Ok(tree)

\* safe_eval_expr(expr, namespace)
safe_eval_expr(e, namespace) ==
    LET tree == _parse(Expression(e))
    IN  IF tree.st = "raise" THEN [res |-> tree, ran |-> {}]
        ELSE EvalNode(e, namespace)

\* safe_eval(expr, variables): one walk checks each node for its class and,
\* when it is a Name, for being known; then the tree is evaluated.
safe_eval(e, vs) ==
    LET nodes == Walk(Expression(e))
        i == FirstOffending(nodes, 1, vs)
    IN  IF i = 0 THEN EvalNode(e, vs)
        ELSE IF Disallowed(nodes[i])
        THEN [res |-> Raise("ValueError", "Disallowed expression node", nodes[i].kind),
              ran |-> {}]
        ELSE [res |-> Raise("ValueError", "Unknown name in expression", nodes[i].id),
              ran |-> {}]

\* ------------------------------------------------ inputs of the evaluators
BinOps == {"Add", "Sub", "Mult", "Div", "FloorDiv", "Mod"}

CmpOps == {"Eq", "Lt"}

BoolOps == {"And", "Or"}

UnaryOps == {"USub", "Not"}

\* A is bound by the namespace, U by nothing, abs by the whitelist.
Atoms == {Num(0), Num(1), Name("A"), Name("U"), Name("abs")}

UnaryOver(S) ==
    {UnaryOp(op, e) : op \in UnaryOps, e \in S} \cup {Attribute(e) : e \in S}

BinaryOver(S, T) ==
    {BinOp(op, l, r) : op \in BinOps, l \in S, r \in T}
    \cup {Compare(op, l, r) : op \in CmpOps, l \in S, r \in T}
    \cup {BoolOp(op, l, r) : op \in BoolOps, l \in S, r \in T}
    \cup {Call(l, r) : l \in S, r \in T}

\* The expressions with exactly n expression nodes.
ExprsOfSize[n \in 1..MaxNodes] ==
    IF n = 1 THEN Atoms
    ELSE UnaryOver(ExprsOfSize[n - 1])
         \cup UNION {BinaryOver(ExprsOfSize[i], ExprsOfSize[n - 1 - i]) : i \in 1..(n - 2)}
         \cup UNION {UNION {{IfExp(c, a, b) : c \in ExprsOfSize[i], a \in ExprsOfSize[j],
                                              b \in ExprsOfSize[n - 1 - i - j]}
                            : j \in 1..(n - 2 - i)} : i \in 1..(n - 3)}

Exprs == UNION {ExprsOfSize[n] : n \in 1..MaxNodes}

Namespaces == {("A" :> Number(v)) : v \in 0..MaxVal}

NoCall == [fn |-> "none"]

\* ------------------------------------------------------------ FormulaEngine
\* The formula keys, in the order a formula set is written (dict order).
KeySeq == <<"X", "Y", "Z">>

Keys == Range(KeySeq)

\* Every identifier of the model, in Python's string order (sorted()).
NameSeq == <<"A", "U", "X", "Y", "Z", "abs">>

\* sorted(S) for a set of identifiers
Sorted(S) == SelectSeq(NameSeq, LAMBDA n : n \in S)

\* extract_names(expr): sorted({n.id for n in ast.walk(tree) if Name})
extract_names(e) ==
    LET nodes == Walk(Expression(e))
    IN  Sorted({nodes[i].id : i \in {j \in 1..Len(nodes) : nodes[j].kind = "Name"}})

\* list(self.formulas): the keys in insertion order
KeyOrder(F) == SelectSeq(KeySeq, LAMBDA k : k \in DOMAIN F)

\* self.deps as __init__ builds it: per key, the names of its expression but
\* the key itself
BuildDeps(F) ==
    [k \in DOMAIN F |-> SelectSeq(extract_names(F[k]), LAMBDA n : n # k)]

\* graph[u] of topo_order: the formulas that wait for u, in insertion order
Graph(F, D, u) == SelectSeq(KeyOrder(F), LAMBDA k : u \in Range(D[k]))

\* indeg of topo_order before the queue is processed
InitialIndeg(F, D) ==
    [k \in DOMAIN F |-> Cardinality({i \in 1..Len(D[k]) : D[k][i] \in DOMAIN F})]

\* The while loop of topo_order: pop u, append it, release its dependents.
RECURSIVE Kahn(_, _, _, _, _)
Kahn(F, D, q, order, indeg) ==
    IF q = <<>> THEN [order |-> order, indeg |-> indeg]
    ELSE LET u == Head(q)
             waiting == Graph(F, D, u)
             indeg2 == [k \in DOMAIN F |->
                           IF k \in Range(waiting) THEN indeg[k] - 1 ELSE indeg[k]]
             freed == SelectSeq(waiting, LAMBDA v : indeg2[v] = 0)
         IN  Kahn(F, D, Tail(q) \o freed, Append(order, u), indeg2)

\* The queue topo_order starts from, and what its loop leaves behind.
KahnRun(F, D) ==
    LET indeg == InitialIndeg(F, D)
    IN  Kahn(F, D, SelectSeq(KeyOrder(F), LAMBDA k : indeg[k] = 0), <<>>, indeg)

\* A variant that returns whatever it could order, cycle or not.
topo_order_no_check(F, D) == Ok(KahnRun(F, D).order)

\* A variant that names only the first key left over.
topo_order_first_only(F, D) ==
    LET r == KahnRun(F, D)
        cyc == SelectSeq(KeyOrder(F), LAMBDA k : r.indeg[k] > 0)
    IN  IF Len(r.order) # Cardinality(DOMAIN F)
        THEN Raise("ValueError", "Cycle detected among formulas", <<Head(cyc)>>)
        ELSE Ok(r.order)

\* A variant that returns the order back to front.
topo_order_reversed(F, D) ==
    LET r == KahnRun(F, D)
        n == Len(r.order)
    IN  IF n # Cardinality(DOMAIN F)
        THEN Raise("ValueError", "Cycle detected among formulas",
                   SelectSeq(KeyOrder(F), LAMBDA k : r.indeg[k] > 0))
        ELSE Ok([i \in 1..n |-> r.order[n + 1 - i]])

\* FormulaEngine.topo_order
topo_order(F, D) ==
    LET r == KahnRun(F, D)
        cyc == SelectSeq(KeyOrder(F), LAMBDA k : r.indeg[k] > 0)
    IN  IF Len(r.order) # Cardinality(DOMAIN F)
        THEN Raise("ValueError", "Cycle detected among formulas", cyc)
        ELSE Ok(r.order)

\* The missing names validate() collects for formula k
MissingNames(F, V, k) ==
    SelectSeq(extract_names(F[k]),
              LAMBDA n : ~(n \in DOMAIN F \/ n \in DOMAIN V \/ n \in _SAFE_FUNCS))

\* A variant that does not exempt the whitelisted function names.
validate_no_whitelist(F, D, V) ==
    LET t == topo_order(F, D)
        M(k) == SelectSeq(extract_names(F[k]),
                          LAMBDA n : ~(n \in DOMAIN F \/ n \in DOMAIN V))
        miss == {k \in DOMAIN F : M(k) # <<>>}
    IN  IF t.st = "raise" THEN t ELSE Ok([k \in miss |-> M(k)])

\* FormulaEngine.validate
validate(F, D, V) ==
    LET t == topo_order(F, D)
        miss == {k \in DOMAIN F : MissingNames(F, V, k) # <<>>}
    IN  IF t.st = "raise" THEN t ELSE Ok([k \in miss |-> MissingNames(F, V, k)])

\* float(x) of a value an expression returned
ToFloat(v) ==
    IF IsNum(v) THEN Ok(v)
    ELSE Raise("TypeError", "float() argument must be a string or a real number", v.f)

\* What one call of eval leaves behind: the cache, the value returned or the
\* exception raised, the keys whose expression was handed to safe_eval_expr
\* (tried) and those whose value it stored (done), and the deepest frame.
Frame(c, res, tried, done, depth) ==
    [cache |-> c, res |-> res, tried |-> tried, done |-> done, depth |-> depth]

RECURSIVE eval(_, _, _, _, _, _)
RECURSIVE ResolveDeps(_, _, _, _, _, _, _)

\* The loop "for n in self.deps[key]" of eval, from its i-th name on; acc is
\* what the names before it left behind.  A call is made once and its result
\* bound: r ranges over the one value the call returns.
ResolveDeps(F, D, V, acc, key, i, depth) ==
    IF i > Len(D[key]) THEN acc
    ELSE LET n == D[key][i]
         IN  IF n \in DOMAIN F /\ n \notin DOMAIN acc.cache /\ n \notin DOMAIN V
             THEN CHOOSE a \in
                      {IF acc2.res.st = "raise" THEN acc2
                       ELSE ResolveDeps(F, D, V, acc2, key, i + 1, depth)
                          : acc2 \in {Frame(r.cache, r.res, acc.tried \o r.tried,
                                            acc.done \o r.done, Max2(acc.depth, r.depth))
                                         : r \in {eval(F, D, V, acc.cache, n, depth + 1)}}}
                      : TRUE
             ELSE ResolveDeps(F, D, V, acc, key, i + 1, depth)

\* The tail of eval: the expression of key is evaluated in {**vars, **cache},
\* the cache being the one in d that the dependency loop left, and its float
\* is cached.
EvalExpr(F, V, d, key) ==
    CHOOSE a \in
        {IF val.st = "raise"
         THEN Frame(d.cache, val, Append(d.tried, key), d.done, d.depth)
         ELSE Frame((key :> val.v) @@ d.cache, val, Append(d.tried, key),
                    Append(d.done, key), d.depth)
            : val \in {IF r.st = "raise" THEN r ELSE ToFloat(r.v)
                          : r \in {safe_eval_expr(F[key], d.cache @@ V).res}}}
        : TRUE

\* A variant that looks for a formula of the key before a seed value.
EvalMiss_formula_first(F, D, V, c, key, depth) ==
    IF key \in DOMAIN F
    THEN CHOOSE a \in
             {IF d.res.st = "raise" THEN d ELSE EvalExpr(F, V, d, key)
                 : d \in {ResolveDeps(F, D, V, Frame(c, Ok(Number(0)), <<>>, <<>>, depth),
                                      key, 1, depth)}}
             : TRUE
    ELSE IF key \in DOMAIN V
    THEN Frame((key :> V[key]) @@ c, Ok(V[key]), <<>>, <<>>, depth)
    ELSE Frame(c, Raise("ValueError", "Undefined variable or formula", key),
               <<>>, <<>>, depth)

\* eval past its cache lookup: a seed value, an undefined key, or a formula
\* whose dependencies are resolved before its expression is evaluated.
EvalMiss(F, D, V, c, key, depth) ==
    IF key \in DOMAIN V
    THEN Frame((key :> V[key]) @@ c, Ok(V[key]), <<>>, <<>>, depth)
    ELSE IF key \notin DOMAIN F
    THEN Frame(c, Raise("ValueError", "Undefined variable or formula", key),
               <<>>, <<>>, depth)
    ELSE CHOOSE a \in
             {IF d.res.st = "raise" THEN d ELSE EvalExpr(F, V, d, key)
                 : d \in {ResolveDeps(F, D, V, Frame(c, Ok(Number(0)), <<>>, <<>>, depth),
                                      key, 1, depth)}}
             : TRUE

\* A variant without the cache lookup at its head.
eval_no_cache(F, D, V, c, key, depth) ==
    IF depth > RecursionLimit
    THEN Frame(c, Raise("RecursionError", "maximum recursion depth exceeded", key),
               <<>>, <<>>, depth - 1)
    ELSE EvalMiss(F, D, V, c, key, depth)

\* FormulaEngine.eval(key), called with cache c as frame number `depth`; the
\* interpreter refuses a frame beyond RecursionLimit.
eval(F, D, V, c, key, depth) ==
    IF depth > RecursionLimit
    THEN Frame(c, Raise("RecursionError", "maximum recursion depth exceeded", key),
               <<>>, <<>>, depth - 1)
    ELSE IF key \in DOMAIN c
    THEN Frame(c, Ok(c[key]), <<>>, <<>>, depth)
    ELSE EvalMiss(F, D, V, c, key, depth)

\* The comprehension {k: self.eval(k) for k in keys} of eval_many, from the
\* i-th key on; acc.res holds the mapping built so far.
RECURSIVE EvalEach(_, _, _, _, _, _)
EvalEach(F, D, V, acc, keys, i) ==
    IF i > Len(keys) THEN acc
    ELSE CHOOSE a \in
             {IF acc2.res.st = "raise" THEN acc2
              ELSE EvalEach(F, D, V, acc2, keys, i + 1)
                 : acc2 \in {Frame(r.cache,
                                   IF r.res.st = "raise" THEN r.res
                                   ELSE Ok((keys[i] :> r.res.v) @@ acc.res.v),
                                   acc.tried \o r.tried, acc.done \o r.done,
                                   Max2(acc.depth, r.depth))
                                : r \in {eval(F, D, V, acc.cache, keys[i], 1)}}}
             : TRUE

\* A variant that goes straight to the evaluations.
eval_many_no_topo(F, D, V, c, keys) ==
    EvalEach(F, D, V, Frame(c, Ok(EmptyMap), <<>>, <<>>, 0), keys, 1)

\* FormulaEngine.eval_many(keys)
eval_many(F, D, V, c, keys) ==
    LET t == topo_order(F, D)
    IN  IF t.st = "raise" THEN Frame(c, t, <<>>, <<>>, 0)
        ELSE EvalEach(F, D, V, Frame(c, Ok(EmptyMap), <<>>, <<>>, 0), keys, 1)

\* ------------------------------------------------------ inputs of the engine
\* "1", "n + 1", "n + m", "n + m + k", ... over the sorted names ns
RECURSIVE SumOf(_)
SumOf(ns) ==
    IF ns = <<>> THEN Num(1)
    ELSE IF Len(ns) = 1 THEN BinOp("Add", Name(ns[1]), Num(1))
    ELSE IF Len(ns) = 2 THEN BinOp("Add", Name(ns[1]), Name(ns[2]))
    ELSE BinOp("Add", SumOf(SubSeq(ns, 1, Len(ns) - 1)), Name(ns[Len(ns)]))

\* The expressions of the formulas: sums over at most MaxRefs of the keys,
\* and abs(1).  A key that has no formula and no seed value is an unknown name.
FormulaExprs ==
    {SumOf(Sorted(S)) : S \in {T \in SUBSET Keys : Cardinality(T) <= MaxRefs}}
    \cup {Call(Name("abs"), Num(1))}

FormulaSets == UNION {[K -> FormulaExprs] : K \in SUBSET Keys}

\* The seed environments: none, or a value for Z (which may have a formula too).
SeedSets == {EmptyMap, ("Z" :> Number(2))}

\* The key lists handed to eval_many.
KeyLists == {<<>>, KeySeq} \cup {<<k>> : k \in Keys}

NoOp == [op |-> "none", key |-> "", keys |-> <<>>, res |-> Ok(Number(0)),
         tried |-> <<>>, depth |-> 0, hit |-> FALSE]

Counted(n, done) ==
    [k \in Keys |-> Min2(EvalCountCap,
                         n[k] + Cardinality({i \in 1..Len(done) : done[i] = k}))]

\* ------------------------------------------------------------------ actions
EvaluatorIdle ==
    /\ expr = Num(0)
    /\ variables = EmptyMap
    /\ out = NoCall

EngineIdle ==
    /\ formulas = EmptyMap
    /\ deps = EmptyMap
    /\ vars = EmptyMap
    /\ cache = EmptyMap
    /\ nEvals = [k \in Keys |-> 0]
    /\ last = NoOp
    /\ plan = <<>>

NoChoice == [fn |-> "none"]

SheetIdle ==
    /\ required_w = 0
    /\ fixed_widths = <<>>
    /\ waste_warn_threshold = 0
    /\ choice = NoChoice

NoTranslation == [st |-> "none"]

ExcelIdle ==
    /\ raw = <<>>
    /\ translated = NoTranslation

\* No table has been asked for.
NoTable == [fn |-> "none"]

LayoutIdle ==
    /\ k15 = [u |-> 0, t |-> 0]
    /\ catalog = <<>>
    /\ table = NoTable

PriorityIdle ==
    /\ charges = <<>>
    /\ saves = <<>>

InitEval ==
    /\ pc = "evaluator"
    /\ expr \in Exprs
    /\ variables \in Namespaces
    /\ out = NoCall
    /\ EngineIdle
    /\ SheetIdle
    /\ ExcelIdle
    /\ LayoutIdle
    /\ PriorityIdle

\* FormulaEngine(formulas, base_vars)
InitEngine ==
    /\ pc = "engine"
    /\ formulas \in FormulaSets
    /\ deps = BuildDeps(formulas)
    /\ vars \in SeedSets
    /\ cache = EmptyMap
    /\ nEvals = [k \in Keys |-> 0]
    /\ last = NoOp
    /\ plan = <<>>
    /\ EvaluatorIdle
    /\ SheetIdle
    /\ ExcelIdle
    /\ LayoutIdle
    /\ PriorityIdle

\* A caller runs safe_eval(expr, variables).
CallSafeEval ==
    /\ pc = "evaluator"
    /\ out' = [fn |-> "safe_eval"] @@ safe_eval(expr, variables)
    /\ UNCHANGED <<expr, variables, formulas, deps, vars, cache, nEvals, last, plan, pc>>
    /\ UNCHANGED <<sheetVars, excelVars, layoutVars, priorityVars>>

\* A caller runs safe_eval_expr(expr, variables).
CallSafeEvalExpr ==
    /\ pc = "evaluator"
    /\ out' = [fn |-> "safe_eval_expr"] @@ safe_eval_expr(expr, variables)
    /\ UNCHANGED <<expr, variables, formulas, deps, vars, cache, nEvals, last, plan, pc>>
    /\ UNCHANGED <<sheetVars, excelVars, layoutVars, priorityVars>>

\* engine.eval(key)
Eval(key) ==
    /\ pc = "engine"
    /\ plan = <<>>
    /\ \E r \in {eval(formulas, deps, vars, cache, key, 1)} :
           /\ cache' = r.cache
           /\ nEvals' = Counted(nEvals, r.done)
           /\ last' = [op |-> "eval", key |-> key, keys |-> <<>>, res |-> r.res,
                       tried |-> r.tried, depth |-> r.depth,
                       hit |-> key \in DOMAIN cache]
    /\ UNCHANGED <<expr, variables, out, formulas, deps, vars, plan, pc>>
    /\ UNCHANGED <<sheetVars, excelVars, layoutVars, priorityVars>>

\* engine.eval_many(keys)
EvalMany(keys) ==
    /\ pc = "engine"
    /\ plan = <<>>
    /\ \E r \in {eval_many(formulas, deps, vars, cache, keys)} :
           /\ cache' = r.cache
           /\ nEvals' = Counted(nEvals, r.done)
           /\ last' = [op |-> "eval_many", key |-> "", keys |-> keys, res |-> r.res,
                       tried |-> r.tried, depth |-> r.depth, hit |-> FALSE]
    /\ UNCHANGED <<expr, variables, out, formulas, deps, vars, plan, pc>>
    /\ UNCHANGED <<sheetVars, excelVars, layoutVars, priorityVars>>

\* engine.validate()
Validate ==
    /\ pc = "engine"
    /\ plan = <<>>
    /\ last' = [op |-> "validate", key |-> "", keys |-> <<>>,
                res |-> validate(formulas, deps, vars),
                tried |-> <<>>, depth |-> 0, hit |-> FALSE]
    /\ UNCHANGED <<expr, variables, out, formulas, deps, vars, cache, nEvals, plan, pc>>
    /\ UNCHANGED <<sheetVars, excelVars, layoutVars, priorityVars>>

\* order = engine.topo_order(); a client then resolves the keys in that order.
TopoOrder ==
    /\ pc = "engine"
    /\ plan = <<>>
    /\ LET t == topo_order(formulas, deps)
       IN  /\ last' = [op |-> "topo_order", key |-> "", keys |-> <<>>, res |-> t,
                       tried |-> <<>>, depth |-> 0, hit |-> FALSE]
           /\ plan' = IF t.st = "ok" THEN t.v ELSE <<>>
    /\ UNCHANGED <<expr, variables, out, formulas, deps, vars, cache, nEvals, pc>>
    /\ UNCHANGED <<sheetVars, excelVars, layoutVars, priorityVars>>

\* for key in order: engine.eval(key) -- one round of the loop; an exception
\* ends it.
EvalNextInOrder ==
    /\ pc = "engine"
    /\ plan # <<>>
    /\ \E key \in {Head(plan)}, r \in {eval(formulas, deps, vars, cache, Head(plan), 1)} :
           /\ cache' = r.cache
           /\ nEvals' = Counted(nEvals, r.done)
           /\ last' = [op |-> "eval_in_order", key |-> key, keys |-> <<>>, res |-> r.res,
                       tried |-> r.tried, depth |-> r.depth,
                       hit |-> key \in DOMAIN cache]
           /\ plan' = IF r.res.st = "raise" THEN <<>> ELSE Tail(plan)
    /\ UNCHANGED <<expr, variables, out, formulas, deps, vars, pc>>
    /\ UNCHANGED <<sheetVars, excelVars, layoutVars, priorityVars>>

NextEval == CallSafeEval \/ CallSafeEvalExpr

NextEngine ==
    \/ \E key \in Keys : Eval(key)
    \/ \E keys \in KeyLists : EvalMany(keys)
    \/ Validate
    \/ TopoOrder
    \/ EvalNextInOrder

SpecEval == InitEval /\ [][NextEval]_vars_all

SpecEngine == InitEngine /\ [][NextEngine]_vars_all

\* ------------------------------------------------- what the claims speak of
\* The identifiers an expression mentions, read off the tree itself.
RECURSIVE NamesIn(_)
NamesIn(e) ==
    CASE e.kind = "Name" -> {e.id}
      [] e.kind = "Constant" -> {}
      [] e.kind \in {"BinOp", "Compare", "BoolOp"} -> NamesIn(e.left) \cup NamesIn(e.right)
      [] e.kind = "UnaryOp" -> NamesIn(e.operand)
      [] e.kind = "IfExp" -> NamesIn(e.test) \cup NamesIn(e.body) \cup NamesIn(e.orelse)
      [] e.kind = "Call" -> NamesIn(e.func) \cup NamesIn(e.arg)
      [] e.kind = "Attribute" -> NamesIn(e.value)

\* Formula k references the other formula key j.
DependsOn(F, k, j) == k \in DOMAIN F /\ j \in DOMAIN F /\ j # k /\ j \in NamesIn(F[k])

\* The formula keys k depends on through at least one reference.
RECURSIVE Closure(_, _)
Closure(F, S) ==
    LET T == S \cup {j \in DOMAIN F : \E k \in S : DependsOn(F, k, j)}
    IN  IF T = S THEN S ELSE Closure(F, T)

Reaches(F, k) == Closure(F, {j \in DOMAIN F : DependsOn(F, k, j)})

OnCycle(F, k) == k \in DOMAIN F /\ k \in Reaches(F, k)

HasCycle(F) == \E k \in DOMAIN F : OnCycle(F, k)

\* The keys on a cycle and the keys that depend on one.
Unorderable(F) ==
    {k \in DOMAIN F : OnCycle(F, k) \/ \E j \in Reaches(F, k) : OnCycle(F, j)}

SelfReferring(F) == {k \in DOMAIN F : k \in NamesIn(F[k])}

IsCycleError(res) ==
    /\ res.st = "raise"
    /\ res.exc = "ValueError"
    /\ res.msg = "Cycle detected among formulas"

\* Position of key k in the sequence s (0 when absent).
PosIn(s, k) == IF k \in Range(s) THEN CHOOSE i \in 1..Len(s) : s[i] = k ELSE 0

\* C1: when the dependency graph among distinct formula keys has a cycle,
\* topo_order() and eval_many(keys) raise the 'Cycle detected' error and the
\* keys it names are exactly the keys on a cycle plus the keys that depend on
\* one, each named once.
C1_CycleErrorNamesResidue ==
    (HasCycle(formulas) /\ last.op \in {"topo_order", "eval_many"}) =>
        /\ IsCycleError(last.res)
        /\ Range(last.res.arg) = Unorderable(formulas)
        /\ Len(last.res.arg) = Cardinality(Unorderable(formulas))

\* A cycle between two keys and a third key that only depends on it; eval_many
\* has raised.
C1_Witness ==
    /\ last.op = "eval_many"
    /\ IsCycleError(last.res)
    /\ \E k \in Unorderable(formulas) : ~OnCycle(formulas, k)

\* C2: for a formula set without a cycle, topo_order() returns every formula
\* key exactly once, only formula keys, and each formula after every other
\* formula key its expression references; a name that is only a seed variable
\* is not ordered at all.
C2_TopoOrderIsValid ==
    (~HasCycle(formulas) /\ last.op = "topo_order") =>
        /\ last.res.st = "ok"
        /\ Range(last.res.v) = DOMAIN formulas
        /\ Len(last.res.v) = Cardinality(DOMAIN formulas)
        /\ \A k, j \in DOMAIN formulas :
              DependsOn(formulas, k, j) => PosIn(last.res.v, j) < PosIn(last.res.v, k)

\* topo_order() has put a later written formula before an earlier one that
\* depends on it, and some formula also uses the seed-only name Z.
C2_Witness ==
    /\ last.op = "topo_order"
    /\ last.res.st = "ok"
    /\ DependsOn(formulas, "X", "Y")
    /\ "Z" \in DOMAIN vars /\ "Z" \notin DOMAIN formulas
    /\ \E k \in DOMAIN formulas : "Z" \in NamesIn(formulas[k])

\* C3: with a cycle anywhere in the formula set, eval_many(keys) and
\* validate() raise the cycle error for every key list, hand no expression to
\* the evaluator, and leave the cache as it was.
C3_CycleCheckedFirst ==
    /\ []((HasCycle(formulas) /\ last.op \in {"eval_many", "validate"}) =>
             (IsCycleError(last.res) /\ last.tried = <<>>))
    /\ [][(HasCycle(formulas) /\ last'.op \in {"eval_many", "validate"}) =>
             cache' = cache]_vars_all

\* eval_many was asked for one key that has nothing to do with the cycle, on
\* an engine that had cached something before, and raised the cycle error.
C3_Witness ==
    /\ last.op = "eval_many"
    /\ Len(last.keys) = 1
    /\ last.keys[1] \in DOMAIN formulas \ Unorderable(formulas)
    /\ IsCycleError(last.res)
    /\ cache # EmptyMap

NoSelfReference(F) == SelfReferring(F) = {}

\* The formula keys, its own included, that the expression of k references and
\* that are neither cached in c nor seed variables.
Unavailable(F, V, c, k) ==
    {n \in NamesIn(F[k]) : n \in DOMAIN F /\ n \notin DOMAIN c /\ n \notin DOMAIN V}

\* C4: in an acyclic formula set resolved key by key in the order topo_order()
\* returned, at the call of eval for a formula every formula key its expression
\* references is cached or a seed variable, and eval does not recurse.
C4_OrderNeedsNoRecursion ==
    [][(last'.op = "eval_in_order" /\ ~HasCycle(formulas) /\ NoSelfReference(formulas)) =>
          /\ last'.depth = 1
          /\ (Head(plan) \in DOMAIN formulas \ DOMAIN vars =>
                 Unavailable(formulas, vars, cache, Head(plan)) = {})]_vars_all

\* The loop has reached and evaluated a formula that references another
\* formula, written after it.
C4_Witness ==
    /\ last.op = "eval_in_order"
    /\ last.res.st = "ok"
    /\ last.tried = <<last.key>>
    /\ ~HasCycle(formulas) /\ NoSelfReference(formulas)
    /\ \E j \in DOMAIN formulas :
          DependsOn(formulas, last.key, j) /\ PosIn(KeySeq, last.key) < PosIn(KeySeq, j)

\* C5: on one engine each formula's expression is evaluated successfully at
\* most once; an eval of a cached key returns the cached value and hands
\* nothing to the evaluator; a cached value never changes or disappears.
C5_CachedOnce ==
    /\ [](\A k \in Keys : nEvals[k] <= 1)
    /\ []((last.op = "eval" /\ last.hit) =>
             (last.tried = <<>> /\ last.res = Ok(cache[last.key])))
    /\ [][\A k \in DOMAIN cache : k \in DOMAIN cache' /\ cache'[k] = cache[k]]_vars_all

\* eval was called again for a formula whose value was computed earlier.
C5_Witness ==
    /\ last.op = "eval"
    /\ last.hit
    /\ last.key \in DOMAIN formulas \ DOMAIN vars
    /\ nEvals[last.key] = 1

\* The names of formula k that are no formula key, no seed and no whitelisted
\* function.
Missing(F, V, k) == NamesIn(F[k]) \ (DOMAIN F \cup DOMAIN V \cup _SAFE_FUNCS)

\* C6: for a formula set without a cycle validate() returns a mapping whose
\* keys are exactly the formulas that use a missing name, each mapped to
\* exactly its missing names, each listed once.
C6_ValidateReportsMissing ==
    (~HasCycle(formulas) /\ last.op = "validate") =>
        /\ last.res.st = "ok"
        /\ DOMAIN last.res.v = {k \in DOMAIN formulas : Missing(formulas, vars, k) # {}}
        /\ \A k \in DOMAIN last.res.v :
              /\ Range(last.res.v[k]) = Missing(formulas, vars, k)
              /\ Len(last.res.v[k]) = Cardinality(Missing(formulas, vars, k))

\* validate() has reported a formula that uses a missing name next to a known
\* one, and passed over a formula that calls a whitelisted function.
C6_Witness ==
    /\ last.op = "validate"
    /\ last.res.st = "ok"
    /\ \E k \in DOMAIN last.res.v :
          NamesIn(formulas[k]) \ Missing(formulas, vars, k) # {}
    /\ \E k \in DOMAIN formulas \ DOMAIN last.res.v : "abs" \in NamesIn(formulas[k])

\* C7: for a formula set topo_order() accepts, eval(key) ends with a value or
\* an error of its own, never by exhausting the interpreter's stack, and its
\* recursion over dependencies is at most as deep as there are formulas.
C7_EvalDepthBounded ==
    (topo_order(formulas, deps).st = "ok" /\ last.op \in {"eval", "eval_in_order"}) =>
        /\ ~(last.res.st = "raise" /\ last.res.exc = "RecursionError")
        /\ last.depth <= IF last.key \in DOMAIN formulas
                         THEN Cardinality(DOMAIN formulas) ELSE 1

\* eval has gone down a chain through every formula of the set.
C7_Witness ==
    /\ last.op = "eval"
    /\ last.res.st = "ok"
    /\ Cardinality(DOMAIN formulas) = Len(KeySeq)
    /\ last.depth = Cardinality(DOMAIN formulas)

\* The expression holds a node of a class outside the allowed ones.
RECURSIVE HasDisallowed(_)
HasDisallowed(e) ==
    CASE e.kind \in {"Name", "Constant"} -> FALSE
      [] e.kind \in {"BinOp", "Compare", "BoolOp"} ->
            e.op \notin _ALLOWED_NODES \/ HasDisallowed(e.left) \/ HasDisallowed(e.right)
      [] e.kind = "UnaryOp" -> e.op \notin _ALLOWED_NODES \/ HasDisallowed(e.operand)
      [] e.kind = "IfExp" ->
            HasDisallowed(e.test) \/ HasDisallowed(e.body) \/ HasDisallowed(e.orelse)
      [] e.kind = "Call" -> HasDisallowed(e.func) \/ HasDisallowed(e.arg)
      [] OTHER -> TRUE

\* The names of the expression that neither the namespace nor the whitelist binds.
UnknownNames(e, vs) == NamesIn(e) \ (DOMAIN vs \cup _SAFE_FUNCS)

Called == out.fn \in {"safe_eval", "safe_eval_expr"}

IsDisallowedError(res) ==
    /\ res.st = "raise"
    /\ res.exc = "ValueError"
    /\ res.msg = "Disallowed expression node"

\* C8 as claimed: both evaluators answer an expression that holds a disallowed
\* node with the 'Disallowed expression node' error, before evaluating any of it.
C8_AsClaimed ==
    (Called /\ HasDisallowed(expr)) => (IsDisallowedError(out.res) /\ out.ran = {})

\* C8 as amended: both evaluators reject an expression that holds a disallowed
\* node with a ValueError before evaluating any of it; safe_eval_expr always
\* with 'Disallowed expression node', safe_eval with that error or, when its
\* walk meets an unknown name first, with 'Unknown name in expression' naming
\* an unknown name of the expression.
C8_DisallowedNeverRuns ==
    (Called /\ HasDisallowed(expr)) =>
        /\ out.ran = {}
        /\ \/ IsDisallowedError(out.res)
           \/ /\ out.fn = "safe_eval"
              /\ out.res.st = "raise"
              /\ out.res.exc = "ValueError"
              /\ out.res.msg = "Unknown name in expression"
              /\ out.res.arg \in UnknownNames(expr, variables)

\* safe_eval met the unknown name of an expression before its disallowed node.
C8_Witness ==
    /\ out.fn = "safe_eval"
    /\ HasDisallowed(expr)
    /\ out.res.st = "raise"
    /\ out.res.msg = "Unknown name in expression"

\* The expression is plain arithmetic and logic over numbers and names: no
\* call, no function name, no disallowed node.
RECURSIVE Arithmetic(_)
Arithmetic(e) ==
    CASE e.kind = "Constant" -> TRUE
      [] e.kind = "Name" -> e.id \notin _SAFE_FUNCS
      [] e.kind \in {"BinOp", "Compare", "BoolOp"} ->
            e.op \in _ALLOWED_NODES /\ Arithmetic(e.left) /\ Arithmetic(e.right)
      [] e.kind = "UnaryOp" -> e.op \in _ALLOWED_NODES /\ Arithmetic(e.operand)
      [] e.kind = "IfExp" -> Arithmetic(e.test) /\ Arithmetic(e.body) /\ Arithmetic(e.orelse)
      [] OTHER -> FALSE

\* The expression divides nowhere.
RECURSIVE NoDivision(_)
NoDivision(e) ==
    CASE e.kind \in {"Constant", "Name"} -> TRUE
      [] e.kind = "BinOp" ->
            e.op \notin {"Div", "FloorDiv", "Mod"} /\ NoDivision(e.left) /\ NoDivision(e.right)
      [] e.kind \in {"Compare", "BoolOp"} -> NoDivision(e.left) /\ NoDivision(e.right)
      [] e.kind = "UnaryOp" -> NoDivision(e.operand)
      [] e.kind = "IfExp" -> NoDivision(e.test) /\ NoDivision(e.body) /\ NoDivision(e.orelse)
      [] OTHER -> FALSE

\* C9 as claimed: an expression that references a name bound by neither the
\* namespace nor the whitelist always fails, with an error that names such an
\* identifier, in safe_eval and in safe_eval_expr alike, also when the name
\* stands in a part that is not taken.  Stated for the expressions in which
\* nothing but a name can fail (plain arithmetic without division).
C9_AsClaimed ==
    (Called /\ Arithmetic(expr) /\ NoDivision(expr)
        /\ UnknownNames(expr, variables) # {}) =>
        (out.res.st = "raise" /\ out.res.arg \in UnknownNames(expr, variables))

\* C10 as claimed: an expression of the allowed grammar whose names are all
\* bound evaluates to a number without raising, whatever the numbers bound,
\* 0 as a divisor included.  Stated for plain arithmetic over numbers.
C10_AsClaimed ==
    (Called /\ Arithmetic(expr) /\ UnknownNames(expr, variables) = {}) =>
        (out.res.st = "ok" /\ IsNum(out.res.v))

\* ------------------------------------- services.choose_per_sheet_and_width
\* (legacy_services.py holds the same function, statement for statement.)
\* Widths are whole numbers; waste_ratio is an exact rational; the threshold
\* is held in percent, so the default 0.10 is 10.
DefaultThreshold == 10

\* The notes, by the branch that writes them.
NoteNoCatalog == "no standard width defined; the required width was used"

NoteNoFit == "no width >= the need; the largest width was chosen"

NoteHighWaste == "high waste"

SetMin(S) == CHOOSE x \in S : \A y \in S : x <= y

SetMax(S) == CHOOSE x \in S : \A y \in S : x >= y

\* greater_or_equal = [w for w in widths if w >= required_w]
GreaterOrEqual(widths, req) == {w \in widths : w >= req}

\* A variant that always takes the largest width.
ChosenWidth_largest(widths, req) == SetMax(widths)

\* chosen = min(greater_or_equal) if greater_or_equal else max(widths)
ChosenWidth(widths, req) ==
    IF GreaterOrEqual(widths, req) # {} THEN SetMin(GreaterOrEqual(widths, req))
    ELSE SetMax(widths)

\* A variant that never lays more than one cut.
CountPerSheet_one(chosen, req) == Ok(1)

\* count: 1 when the chosen width is too small, else max(1, int(chosen // required_w));
\* floor division of a float by zero raises.
CountPerSheet(chosen, req) ==
    IF chosen < req THEN Ok(1)
    ELSE IF req = 0 THEN Raise("ZeroDivisionError", "float floor division by zero", "")
    ELSE Ok(Max2(1, chosen \div req))

\* waste_ratio = (max(0.0, chosen - required_w * count) / chosen) if chosen else 0.0
WasteRatio(chosen, req, count) ==
    IF chosen = 0 THEN Rat(0, 1) ELSE Rat(Max2(0, chosen - req * count), chosen)

\* waste_ratio >= waste_warn_threshold, the threshold in percent
Warn(ratio, threshold) == ratio.n * 100 >= threshold * ratio.d

\* choose_per_sheet_and_width(required_w, fixed_widths, waste_warn_threshold)
\*   -> (count, chosen, waste_ratio, warn, note)
services_choose_per_sheet_and_width(req, fixed, threshold) ==
    LET widths == {fixed[i] : i \in {j \in 1..Len(fixed) : fixed[j] # 0}}
    IN  IF widths = {}
        THEN Ok([count |-> 1, chosen |-> req, waste_ratio |-> Rat(0, 1),
                 warn |-> FALSE, note |-> NoteNoCatalog])
        ELSE LET chosen == ChosenWidth(widths, req)
                 count == CountPerSheet(chosen, req)
             IN  IF count.st = "raise" THEN count
                 ELSE LET ratio == WasteRatio(chosen, req, count.v)
                          warn == Warn(ratio, threshold)
                      IN  Ok([count |-> count.v, chosen |-> chosen,
                              waste_ratio |-> ratio, warn |-> warn,
                              note |-> IF GreaterOrEqual(widths, req) = {}
                                       THEN NoteNoFit
                                       ELSE IF warn THEN NoteHighWaste ELSE ""])

\* The catalogs: lists of positive widths, in any order, repeats allowed.
Catalogs == UNION {[1..n -> 1..MaxWidth] : n \in 0..MaxCatalog}

\* The thresholds: the default 10% and a laxer 50%.
Thresholds == {DefaultThreshold, 50}

InitSheet ==
    /\ pc = "sheet"
    /\ required_w \in 0..MaxWidth
    /\ fixed_widths \in Catalogs
    /\ waste_warn_threshold \in Thresholds
    /\ choice = NoChoice
    /\ EvaluatorIdle
    /\ EngineIdle
    /\ ExcelIdle
    /\ LayoutIdle
    /\ PriorityIdle

\* services.choose_per_sheet_and_width(required_w, fixed_widths, threshold)
ChoosePerSheet ==
    /\ pc = "sheet"
    /\ choice' = [fn |-> "services",
                  res |-> services_choose_per_sheet_and_width(
                              required_w, fixed_widths, waste_warn_threshold)]
    /\ UNCHANGED <<expr, variables, out, formulas, deps, vars, cache, nEvals, last, plan>>
    /\ UNCHANGED <<required_w, fixed_widths, waste_warn_threshold, excelVars, pc>>
    /\ UNCHANGED <<layoutVars, priorityVars>>

\* legacy_services.choose_per_sheet_and_width(required_w, fixed_widths, threshold)
LegacyChoosePerSheet ==
    /\ pc = "sheet"
    /\ choice' = [fn |-> "legacy_services",
                  res |-> services_choose_per_sheet_and_width(
                              required_w, fixed_widths, waste_warn_threshold)]
    /\ UNCHANGED <<expr, variables, out, formulas, deps, vars, cache, nEvals, last, plan>>
    /\ UNCHANGED <<required_w, fixed_widths, waste_warn_threshold, excelVars, pc>>
    /\ UNCHANGED <<layoutVars, priorityVars>>

NextSheet == ChoosePerSheet \/ LegacyChoosePerSheet

SpecSheet == InitSheet /\ [][NextSheet]_vars_all

\* The call has been made on a catalog with a width in it, for a positive need.
Chose == choice.fn # "none" /\ fixed_widths # <<>> /\ required_w > 0

\* The catalog widths that hold at least one cut.
Fitting == {w \in Range(fixed_widths) : w >= required_w}

\* What is left of width w after all the whole cuts it holds.
WasteOf(w) == w - (w \div required_w) * required_w

\* C17: for a catalog that is not empty (and a positive need)
\* choose_per_sheet_and_width returns a width of the catalog: the smallest one
\* that is >= required_w or, when none is, the largest one with one cut per sheet.
C17_SmallestFittingWidth ==
    Chose =>
        /\ choice.res.st = "ok"
        /\ choice.res.v.chosen \in Range(fixed_widths)
        /\ Fitting # {} => choice.res.v.chosen = SetMin(Fitting)
        /\ Fitting = {} => (choice.res.v.chosen = SetMax(Range(fixed_widths))
                            /\ choice.res.v.count = 1)

\* Of two stocked widths, written larger first, the smaller one that fits was
\* chosen.
C17_Witness ==
    /\ Chose
    /\ Len(fixed_widths) = 2
    /\ fixed_widths[1] > fixed_widths[2]
    /\ fixed_widths[2] >= required_w
    /\ choice.res.v.chosen = fixed_widths[2]

\* C18 as claimed: when some width is >= required_w > 0, the waste of the
\* chosen width is the least waste of all the widths that are >= required_w.
C18_AsClaimed ==
    (Chose /\ Fitting # {} /\ choice.res.st = "ok") =>
        \A w \in Fitting : WasteOf(choice.res.v.chosen) <= WasteOf(w)

\* C19 as claimed: the count is max(1, floor(W / required_w)) and the third
\* component of the result is the waste W - count * required_w.  Stated for
\* a chosen width that holds at least one cut.
C19_AsClaimed ==
    (Chose /\ Fitting # {} /\ choice.res.st = "ok") =>
        /\ choice.res.v.count = Max2(1, choice.res.v.chosen \div required_w)
        /\ choice.res.v.waste_ratio
              = Rat(choice.res.v.chosen - choice.res.v.count * required_w, 1)

\* C19 as amended: the count is max(1, floor(W / required_w)) and the third
\* component of the result is the waste ratio max(0, W - count * required_w) / W,
\* which is 0 for an exact fit, and an exact fit raises no warning under a
\* positive threshold.
C19_CountAndWasteRatio ==
    (Chose /\ choice.res.st = "ok") =>
        LET W == choice.res.v.chosen
            cuts == choice.res.v.count
        IN  /\ cuts = Max2(1, W \div required_w)
            /\ choice.res.v.waste_ratio = Rat(Max2(0, W - cuts * required_w), W)
            /\ (W = cuts * required_w) =>
                  (choice.res.v.waste_ratio = Rat(0, 1) /\ ~choice.res.v.warn
                   /\ choice.res.v.note = "")

\* A width that holds two cuts and leaves a rest was chosen.
C19_Witness ==
    /\ Chose
    /\ choice.res.st = "ok"
    /\ choice.res.v.count = 2
    /\ choice.res.v.waste_ratio.n > 0

\* C20 as claimed: when no width is >= required_w, the largest width comes
\* back with one cut per sheet, the warning flag set and a note.
C20_AsClaimed ==
    (Chose /\ Fitting = {} /\ waste_warn_threshold = DefaultThreshold) =>
        /\ choice.res.st = "ok"
        /\ choice.res.v.chosen = SetMax(Range(fixed_widths))
        /\ choice.res.v.count = 1
        /\ choice.res.v.warn
        /\ choice.res.v.note # ""

\* ------------------------------------------------------- excel_to_python
\* A text is a sequence of characters, each a one-character string.  The
\* Persian digits and separators are written "fa0" .. "fa9", "fa," (thousands
\* mark), "fa." (decimal mark), "fa;" "fa%" and "fa_comma".  The only white space
\* is the blank.
UpperCase == <<"A", "B", "C", "D", "E", "F", "G", "H", "I", "J", "K", "L", "M", "N", "O", "P", "Q", "R", "S", "T", "U", "V", "W", "X", "Y", "Z">>

LowerCase == <<"a", "b", "c", "d", "e", "f", "g", "h", "i", "j", "k", "l", "m", "n", "o", "p", "q", "r", "s", "t", "u", "v", "w", "x", "y", "z">>

Digits == {"0", "1", "2", "3", "4", "5", "6", "7", "8", "9"}

\* \w of the regular expressions
IsWordChar(c) == c \in Range(UpperCase) \cup Range(LowerCase) \cup Digits \cup {"_"}

\* c.upper(), for re.I
ToUpper(c) ==
    IF c \in Range(LowerCase)
    THEN UpperCase[CHOOSE i \in 1..Len(LowerCase) : LowerCase[i] = c]
    ELSE c

\* _FA_TO_EN = str.maketrans(...)
_FA_TO_EN ==
    [c \in {"fa0", "fa1", "fa2", "fa3", "fa4", "fa5", "fa6", "fa7", "fa8", "fa9",
            "fa,", "fa.", "fa_comma", "fa%", "fa;"} |->
        CASE c = "fa0" -> "0" [] c = "fa1" -> "1" [] c = "fa2" -> "2"
          [] c = "fa3" -> "3" [] c = "fa4" -> "4" [] c = "fa5" -> "5"
          [] c = "fa6" -> "6" [] c = "fa7" -> "7" [] c = "fa8" -> "8"
          [] c = "fa9" -> "9" [] c = "fa," -> "," [] c = "fa." -> "."
          [] c = "fa_comma" -> "," [] c = "fa%" -> "%" [] c = "fa;" -> ";"]

\* str.strip()
RECURSIVE Strip(_)
Strip(t) ==
    IF t = <<>> THEN t
    ELSE IF Head(t) = " " THEN Strip(Tail(t))
    ELSE IF t[Len(t)] = " " THEN Strip(SubSeq(t, 1, Len(t) - 1))
    ELSE t

\* A variant that leaves a leading "=" in place.
normalize_text_keep_eq(s) ==
    CHOOSE r \in
        {[i \in 1..Len(u) |-> IF u[i] \in DOMAIN _FA_TO_EN THEN _FA_TO_EN[u[i]] ELSE u[i]]
            : u \in {Strip(s)}}
        : TRUE

\* normalize_text(s)
normalize_text(s) ==
    CHOOSE r \in
        {IF t # <<>> /\ Head(t) = "=" THEN Strip(Tail(t)) ELSE t
            : t \in {[i \in 1..Len(u) |->
                         IF u[i] \in DOMAIN _FA_TO_EN THEN _FA_TO_EN[u[i]] ELSE u[i]]
                        : u \in {Strip(s)}}}
        : TRUE

\* The text t holds the characters of w from position p on (re.I: in any case).
HoldsAt(t, p, w, icase) ==
    /\ p >= 1
    /\ p + Len(w) - 1 <= Len(t)
    /\ \A k \in 1..Len(w) :
          IF icase THEN ToUpper(t[p + k - 1]) = ToUpper(w[k]) ELSE t[p + k - 1] = w[k]

\* \b before position p, where a word character stands
WordStartsAt(t, p) == p = 1 \/ ~IsWordChar(t[p - 1])

\* \b after position p, where a word character stands
WordEndsAt(t, p) == p = Len(t) \/ ~IsWordChar(t[p + 1])

\* re.sub(r"\bWORD\b", repl, t, flags=re.I), from position p on
RECURSIVE SubWord(_, _, _, _)
SubWord(t, p, w, repl) ==
    IF p > Len(t) THEN <<>>
    ELSE IF HoldsAt(t, p, w, TRUE) /\ WordStartsAt(t, p) /\ WordEndsAt(t, p + Len(w) - 1)
    THEN repl \o SubWord(t, p + Len(w), w, repl)
    ELSE <<t[p]>> \o SubWord(t, p + 1, w, repl)

\* str.replace(old, new), from position p on
RECURSIVE Replace(_, _, _, _)
Replace(t, p, old, new) ==
    IF p > Len(t) THEN <<>>
    ELSE IF HoldsAt(t, p, old, FALSE) THEN new \o Replace(t, p + Len(old), old, new)
    ELSE <<t[p]>> \o Replace(t, p + 1, old, new)

\* re.sub(r"(?<![<>!=])=(?!=)", "==", t)
SubEquals(t) ==
    LET Lone(p) == /\ t[p] = "="
                   /\ (p = 1 \/ t[p - 1] \notin {"<", ">", "!", "="})
                   /\ (p = Len(t) \/ t[p + 1] # "=")
        F[p \in 0..Len(t)] ==
            IF p = 0 THEN <<>>
            ELSE F[p - 1] \o (IF Lone(p) THEN <<"=", "=">> ELSE <<t[p]>>)
    IN  F[Len(t)]

\* _split_args(s), from position i on; st carries args, buf, lvl, in_str, quote
RECURSIVE SplitFrom(_, _, _)
SplitFrom(s, i, st) ==
    IF i > Len(s)
    THEN IF Strip(st.buf) # <<>> THEN Append(st.args, Strip(st.buf)) ELSE st.args
    ELSE CHOOSE r \in
        {SplitFrom(s, i + 1, st2) : st2 \in
            {IF s[i] \in {"'", "\""}
             THEN [st EXCEPT !.buf = Append(@, s[i]),
                             !.in_str = IF ~st.in_str THEN TRUE
                                        ELSE IF st.quote = s[i] THEN FALSE ELSE @,
                             !.quote = IF ~st.in_str THEN s[i]
                                       ELSE IF st.quote = s[i] THEN "" ELSE @]
             ELSE IF ~st.in_str /\ s[i] = "("
             THEN [st EXCEPT !.buf = Append(@, s[i]), !.lvl = @ + 1]
             ELSE IF ~st.in_str /\ s[i] = ")"
             THEN [st EXCEPT !.buf = Append(@, s[i]), !.lvl = @ - 1]
             ELSE IF ~st.in_str /\ st.lvl = 0 /\ s[i] \in {",", ";"}
             THEN [st EXCEPT !.buf = <<>>,
                             !.args = IF Strip(st.buf) # <<>>
                                      THEN Append(@, Strip(st.buf)) ELSE @]
             ELSE [st EXCEPT !.buf = Append(@, s[i])]}}
        : TRUE

_split_args(s) ==
    SplitFrom(s, 1, [args |-> <<>>, buf |-> <<>>, lvl |-> 0, in_str |-> FALSE, quote |-> ""])

\* sep.join(args)
RECURSIVE Join(_, _)
Join(sep, args) ==
    IF args = <<>> THEN <<>>
    ELSE IF Len(args) = 1 THEN args[1]
    ELSE args[1] \o sep \o Join(sep, Tail(args))

\* A variant that puts the two values the other way round.
conv_if_swapped(args) ==
    IF Len(args) >= 3
    THEN <<"(">> \o args[3] \o <<" ", "i", "f", " ", "(">> \o args[1] \o <<")", " ", "e", "l", "s", "e", " ">> \o args[2] \o <<")">>
    ELSE <<"(">> \o Join(<<",">>, args) \o <<")">>

conv_if(args) ==
    IF Len(args) >= 3
    THEN <<"(">> \o args[2] \o <<" ", "i", "f", " ", "(">> \o args[1] \o <<")", " ", "e", "l", "s", "e", " ">> \o args[3] \o <<")">>
    ELSE <<"(">> \o Join(<<",">>, args) \o <<")">>

conv_and(args) == <<"(">> \o Join(<<" ", "a", "n", "d", " ">>, args) \o <<")">>

conv_or(args) == <<"(">> \o Join(<<" ", "o", "r", " ">>, args) \o <<")">>

conv_not(args) ==
    <<"(", "n", "o", "t", " ", "(">> \o (IF args # <<>> THEN args[1] ELSE <<>>) \o <<")", ")">>

\* The structural functions, in the order excel_to_python rewrites them.
StructuralNames == <<<<"I", "F">>, <<"A", "N", "D">>, <<"O", "R">>, <<"N", "O", "T">>>>

\* conv(args) for the converter that excel_to_python pairs with name
Conv(name, args) ==
    CASE name = <<"I", "F">> -> conv_if(args)
      [] name = <<"A", "N", "D">> -> conv_and(args)
      [] name = <<"O", "R">> -> conv_or(args)
      [] name = <<"N", "O", "T">> -> conv_not(args)

\* Position after the white space that starts at p (\s*)
RECURSIVE SkipSpace(_, _)
SkipSpace(t, p) == IF p <= Len(t) /\ t[p] = " " THEN SkipSpace(t, p + 1) ELSE p

\* Where \bNAME\s*\( matches at position p: the position of its "(", else 0.
CallAt(t, p, name, icase) ==
    IF HoldsAt(t, p, name, icase) /\ WordStartsAt(t, p)
    THEN LET q == SkipSpace(t, p + Len(name))
         IN  IF q <= Len(t) /\ t[q] = "(" THEN q ELSE 0
    ELSE 0

\* pat.search(text): the leftmost match, as [start, open], start = 0 for None
Search(t, name, icase) ==
    LET hits == {p \in 1..Len(t) : CallAt(t, p, name, icase) # 0}
    IN  IF hits = {} THEN [start |-> 0, open |-> 0]
        ELSE [start |-> SetMin(hits), open |-> CallAt(t, SetMin(hits), name, icase)]

\* The scan for the closing parenthesis: while j + 1 < len(text) and lvl > 0
RECURSIVE CloseScan(_, _, _)
CloseScan(t, j, lvl) ==
    IF j < Len(t) /\ lvl > 0
    THEN CloseScan(t, j + 1, IF t[j + 1] = "(" THEN lvl + 1
                             ELSE IF t[j + 1] = ")" THEN lvl - 1 ELSE lvl)
    ELSE j

\* A variant of the loop that gives up one substitution earlier.
RECURSIVE RewriteLoop_early(_, _, _)
RewriteLoop_early(name, text, guard) ==
    IF guard >= GuardLimit THEN [text |-> text, guard |-> guard, hit |-> TRUE]
    ELSE CHOOSE r \in
        {IF m.start = 0 THEN [text |-> text, guard |-> guard, hit |-> FALSE]
         ELSE CHOOSE r2 \in
            {IF rep = SubSeq(text, m.start, j)
             THEN [text |-> text, guard |-> guard, hit |-> FALSE]
             ELSE CHOOSE r3 \in
                {RewriteLoop_early(name, t2, guard + 1)
                    : t2 \in {SubSeq(text, 1, m.start - 1) \o rep
                                 \o SubSeq(text, j + 1, Len(text))}} : TRUE
                : j \in {CloseScan(text, m.open, 1)},
                  rep \in {Conv(name, _split_args(
                              SubSeq(text, m.open + 1, CloseScan(text, m.open, 1) - 1)))}}
            : TRUE
            : m \in {Search(text, name, FALSE)}}
        : TRUE

\* The loop of _replace_fn(name, text, conv): guard substitutions were made
\* so far.  It ends on the guard (with the diagnostic, hit), when NAME( is
\* found no more, or when a replacement changes nothing.
RECURSIVE RewriteLoop(_, _, _)
RewriteLoop(name, text, guard) ==
    IF guard > GuardLimit THEN [text |-> text, guard |-> guard, hit |-> TRUE]
    ELSE CHOOSE r \in
        {IF m.start = 0 THEN [text |-> text, guard |-> guard, hit |-> FALSE]
         ELSE CHOOSE r2 \in
            {IF rep = SubSeq(text, m.start, j)
             THEN [text |-> text, guard |-> guard, hit |-> FALSE]
             ELSE CHOOSE r3 \in
                {RewriteLoop(name, t2, guard + 1)
                    : t2 \in {SubSeq(text, 1, m.start - 1) \o rep
                                 \o SubSeq(text, j + 1, Len(text))}} : TRUE
                : j \in {CloseScan(text, m.open, 1)},
                  rep \in {Conv(name, _split_args(
                              SubSeq(text, m.open + 1, CloseScan(text, m.open, 1) - 1)))}}
            : TRUE
            : m \in {Search(text, name, FALSE)}}
        : TRUE

\* _replace_fn(name, text, conv, flags=0)
_replace_fn(name, text) == RewriteLoop(name, text, 0)

\* The loop "for name, conv in [IF, AND, OR, NOT]", from the i-th name on;
\* acc holds the text and, per name done, the count of substitutions and
\* whether the guard was hit.
RECURSIVE RewriteAll(_, _)
RewriteAll(acc, i) ==
    IF i > Len(StructuralNames) THEN acc
    ELSE CHOOSE r \in
        {RewriteAll([text |-> f.text, subs |-> Append(acc.subs, f.guard),
                     hits |-> Append(acc.hits, f.hit)], i + 1)
            : f \in {_replace_fn(StructuralNames[i], acc.text)}}
        : TRUE

\* re.sub(r"\bNAME\s*\(", repl, t, flags=re.I) for the alternatives names of
\* one pattern (the longer alternative first), from position p on
RECURSIVE SubCall(_, _, _, _)
SubCall(t, p, names, repl) ==
    IF p > Len(t) THEN <<>>
    ELSE LET opens == [k \in 1..Len(names) |-> CallAt(t, p, names[k], TRUE)]
             ks == {k \in 1..Len(names) : opens[k] # 0}
         IN  IF ks = {} THEN <<t[p]>> \o SubCall(t, p + 1, names, repl)
             ELSE repl \o SubCall(t, opens[SetMin(ks)] + 1, names, repl)

\* SIMPLE_MAP, in the order of the dict
SIMPLE_MAP ==
    << [names |-> <<<<"M", "I", "N">>>>, repl |-> <<"m", "i", "n", "(">>],
       [names |-> <<<<"M", "A", "X">>>>, repl |-> <<"m", "a", "x", "(">>],
       [names |-> <<<<"A", "B", "S">>>>, repl |-> <<"a", "b", "s", "(">>],
       [names |-> <<<<"R", "O", "U", "N", "D">>>>, repl |-> <<"r", "o", "u", "n", "d", "(">>],
       [names |-> <<<<"C", "E", "I", "L", "I", "N", "G">>, <<"C", "E", "I", "L">>>>, repl |-> <<"c", "e", "i", "l", "(">>],
       [names |-> <<<<"F", "L", "O", "O", "R">>>>, repl |-> <<"f", "l", "o", "o", "r", "(">>],
       [names |-> <<<<"R", "O", "U", "N", "D", "U", "P">>>>, repl |-> <<"c", "e", "i", "l", "(">>],
       [names |-> <<<<"I", "N", "T">>>>, repl |-> <<"i", "n", "t", "(">>] >>

\* The loop "for pat, repl in SIMPLE_MAP.items()", from the i-th pattern on
RECURSIVE MapSimple(_, _)
MapSimple(t, i) ==
    IF i > Len(SIMPLE_MAP) THEN t
    ELSE CHOOSE r \in
        {MapSimple(t2, i + 1)
            : t2 \in {SubCall(t, 1, SIMPLE_MAP[i].names, SIMPLE_MAP[i].repl)}}
        : TRUE

\* excel_to_python(expr): the translation, with what the rewrite loops did
excel_to_python(e) ==
    CHOOSE r \in
        {[st |-> "ok", text |-> MapSimple(w.text, 1), subs |-> w.subs, hits |-> w.hits]
            : w \in {RewriteAll([text |-> s4, subs |-> <<>>, hits |-> <<>>], 1)
                        : s4 \in {SubEquals(s3)
                        : s3 \in {Replace(Replace(s2, 1, <<"<", ">">>, <<"!", "=">>),
                                          1, <<"^">>, <<"*", "*">>)
                        : s2 \in {SubWord(SubWord(s1, 1, <<"T", "R", "U", "E">>, <<"T", "r", "u", "e">>),
                                          1, <<"F", "A", "L", "S", "E">>, <<"F", "a", "l", "s", "e">>)
                        : s1 \in {normalize_text(e)}}}}}}
        : TRUE

\* ------------------------------------------- ast.parse(text, mode="eval")
\* The tokens of a text: numbers, names, strings, keywords and operators.
Token(k, v) == [k |-> k, v |-> v]

EndToken == Token("end", "")

\* "".join(chars)
RECURSIVE JoinChars(_)
JoinChars(chars) == IF chars = <<>> THEN "" ELSE Head(chars) \o JoinChars(Tail(chars))

\* int(digits), from the i-th digit on with the value v of the digits before
RECURSIVE ToInt(_, _, _)
ToInt(chars, i, v) ==
    IF i > Len(chars) THEN v
    ELSE ToInt(chars, i + 1,
               10 * v + (CHOOSE d \in 0..9 :
                            chars[i] = <<"0", "1", "2", "3", "4", "5", "6", "7", "8", "9">>[d + 1]))

\* The end of the run of word characters that starts at p
RECURSIVE WordEnd(_, _)
WordEnd(t, p) == IF p < Len(t) /\ IsWordChar(t[p + 1]) THEN WordEnd(t, p + 1) ELSE p

\* The position of the quote that closes the string opened at p, else 0
RECURSIVE StringEnd(_, _, _)
StringEnd(t, p, q) ==
    IF q > Len(t) THEN 0 ELSE IF t[q] = t[p] THEN q ELSE StringEnd(t, p, q + 1)

Keywords == {"if", "else", "and", "or", "not"}

Operators2 == {<<"*", "*">>, <<"/", "/">>, <<"=", "=">>, <<"!", "=">>, <<"<", "=">>, <<">", "=">>}

Operators1 == {"(", ")", ",", "+", "-", "*", "/", "%", "<", ">"}

\* The token of a word: a number, a keyword, True / False, or a name
WordToken(w) ==
    IF Head(w) \in Digits
    THEN IF \E i \in 1..Len(w) : w[i] \notin Digits THEN Token("bad", "")
         ELSE IF Len(w) > 1 /\ Head(w) = "0" /\ ToInt(w, 1, 0) # 0 THEN Token("bad", "")
         ELSE Token("num", ToInt(w, 1, 0))
    ELSE IF JoinChars(w) \in Keywords THEN Token("kw", JoinChars(w))
    ELSE IF JoinChars(w) = "True" THEN Token("num", 1)
    ELSE IF JoinChars(w) = "False" THEN Token("num", 0)
    ELSE Token("name", JoinChars(w))

\* The tokens of t from position p on, after the tokens acc; <<Token("bad")>>
\* when a character starts no token.
RECURSIVE Tokenize(_, _, _)
Tokenize(t, p, acc) ==
    IF p > Len(t) THEN acc
    ELSE IF t[p] = " " THEN Tokenize(t, p + 1, acc)
    ELSE IF IsWordChar(t[p])
    THEN CHOOSE r \in
            {IF tok.k = "bad" THEN <<tok>> ELSE Tokenize(t, e + 1, Append(acc, tok))
                : e \in {WordEnd(t, p)}, tok \in {WordToken(SubSeq(t, p, WordEnd(t, p)))}}
            : TRUE
    ELSE IF t[p] \in {"'", "\""}
    THEN CHOOSE r \in
            {IF e = 0 THEN <<Token("bad", "")>>
             ELSE Tokenize(t, e + 1, Append(acc, Token("str", SubSeq(t, p + 1, e - 1))))
                : e \in {StringEnd(t, p, p + 1)}}
            : TRUE
    ELSE IF p < Len(t) /\ <<t[p], t[p + 1]>> \in Operators2
    THEN Tokenize(t, p + 2, Append(acc, Token("op", t[p] \o t[p + 1])))
    ELSE IF t[p] \in Operators1
    THEN Tokenize(t, p + 1, Append(acc, Token("op", t[p])))
    ELSE <<Token("bad", "")>>

\* A parse: the node read and the position of the next token; st is "ok",
\* "SyntaxError", or "Unsupported" for Python that the trees of the model
\* cannot hold (a chained comparison, a call without or with several arguments).
POk(node, next) == [st |-> "ok", node |-> node, next |-> next]

PErr == [st |-> "SyntaxError", node |-> Num(0), next |-> 0]

PUnsupported == [st |-> "Unsupported", node |-> Num(0), next |-> 0]

Tok(toks, p) == IF p >= 1 /\ p <= Len(toks) THEN toks[p] ELSE EndToken

IsOp(tok, ops) == tok.k = "op" /\ tok.v \in ops

IsKw(tok, w) == tok.k = "kw" /\ tok.v = w

CmpOpTokens == {"==", "!=", "<", ">", "<=", ">="}

\* The operators that chain operands at a level of the grammar
ChainOp(tok, lvl) ==
    CASE lvl = "or" -> IsKw(tok, "or")
      [] lvl = "and" -> IsKw(tok, "and")
      [] lvl = "arith" -> IsOp(tok, {"+", "-"})
      [] lvl = "term" -> IsOp(tok, {"*", "/", "//", "%"})

\* The level of the operands of a chain
Below(lvl) ==
    CASE lvl = "or" -> "and" [] lvl = "and" -> "not"
      [] lvl = "arith" -> "term" [] lvl = "term" -> "factor"

OpName(v) ==
    CASE v = "+" -> "Add" [] v = "-" -> "Sub" [] v = "*" -> "Mult" [] v = "/" -> "Div"
      [] v = "//" -> "FloorDiv" [] v = "%" -> "Mod" [] v = "**" -> "Pow"
      [] v = "==" -> "Eq" [] v = "!=" -> "NotEq" [] v = "<" -> "Lt" [] v = ">" -> "Gt"
      [] v = "<=" -> "LtE" [] v = ">=" -> "GtE"

\* The node of "l op r" at a chain level (and / or chains nest to the left)
Combine(lvl, tok, l, r) ==
    IF lvl = "or" THEN BoolOp("Or", l, r)
    ELSE IF lvl = "and" THEN BoolOp("And", l, r)
    ELSE BinOp(OpName(tok.v), l, r)

RECURSIVE PLevel(_, _, _)
RECURSIVE PChain(_, _, _)
RECURSIVE PList(_, _, _)
RECURSIVE PTrailers(_, _)

\* operand (op operand)* : l is what was read so far
PChain(toks, l, lvl) ==
    IF l.st # "ok" \/ ~ChainOp(Tok(toks, l.next), lvl) THEN l
    ELSE CHOOSE x \in
        {PChain(toks, l2, lvl)
            : l2 \in {IF r.st # "ok" THEN r
                      ELSE POk(Combine(lvl, Tok(toks, l.next), l.node, r.node), r.next)
                         : r \in {PLevel(toks, l.next + 1, Below(lvl))}}}
        : TRUE

\* (',' test)* [','] after the elements elts: a tuple; p is at a comma
PList(toks, p, elts) ==
    IF Tok(toks, p + 1).k = "end" \/ IsOp(Tok(toks, p + 1), {")"})
    THEN POk(Tuple(elts), p + 1)
    ELSE CHOOSE x \in
        {IF e.st # "ok" THEN e
         ELSE IF IsOp(Tok(toks, e.next), {","}) THEN PList(toks, e.next, Append(elts, e.node))
         ELSE POk(Tuple(Append(elts, e.node)), e.next)
            : e \in {PLevel(toks, p + 1, "test")}}
        : TRUE

\* atom trailer* : the calls made on the atom a
PTrailers(toks, a) ==
    IF a.st # "ok" \/ ~IsOp(Tok(toks, a.next), {"("}) THEN a
    ELSE IF IsOp(Tok(toks, a.next + 1), {")"}) THEN PUnsupported
    ELSE CHOOSE x \in
        {IF arg.st # "ok" THEN arg
         ELSE IF IsOp(Tok(toks, arg.next), {","}) THEN PUnsupported
         ELSE IF ~IsOp(Tok(toks, arg.next), {")"}) THEN PErr
         ELSE CHOOSE y \in
                {PTrailers(toks, c) : c \in {POk(Call(a.node, arg.node), arg.next + 1)}}
                : TRUE
            : arg \in {PLevel(toks, a.next + 1, "test")}}
        : TRUE

\* The expression grammar of Python, one level of precedence per case
PLevel(toks, p, lvl) ==
    CASE lvl = "testlist" ->
            CHOOSE x \in
                {IF f.st = "ok" /\ IsOp(Tok(toks, f.next), {","})
                 THEN PList(toks, f.next, <<f.node>>) ELSE f
                    : f \in {PLevel(toks, p, "test")}}
                : TRUE
      [] lvl = "test" ->
            CHOOSE x \in
                {IF c.st # "ok" \/ ~IsKw(Tok(toks, c.next), "if") THEN c
                 ELSE CHOOSE y \in
                    {IF t.st # "ok" THEN t
                     ELSE IF ~IsKw(Tok(toks, t.next), "else") THEN PErr
                     ELSE CHOOSE z \in
                        {IF e.st # "ok" THEN e
                         ELSE POk(IfExp(t.node, c.node, e.node), e.next)
                            : e \in {PLevel(toks, t.next + 1, "test")}}
                        : TRUE
                        : t \in {PLevel(toks, c.next + 1, "or")}}
                    : TRUE
                    : c \in {PLevel(toks, p, "or")}}
                : TRUE
      [] lvl \in {"or", "and", "arith", "term"} ->
            CHOOSE x \in
                {PChain(toks, l, lvl) : l \in {PLevel(toks, p, Below(lvl))}} : TRUE
      [] lvl = "not" ->
            IF ~IsKw(Tok(toks, p), "not") THEN PLevel(toks, p, "cmp")
            ELSE CHOOSE x \in
                {IF a.st # "ok" THEN a ELSE POk(UnaryOp("Not", a.node), a.next)
                    : a \in {PLevel(toks, p + 1, "not")}}
                : TRUE
      [] lvl = "cmp" ->
            CHOOSE x \in
                {IF l.st # "ok" \/ ~IsOp(Tok(toks, l.next), CmpOpTokens) THEN l
                 ELSE CHOOSE y \in
                    {IF r.st # "ok" THEN r
                     ELSE IF IsOp(Tok(toks, r.next), CmpOpTokens) THEN PUnsupported
                     ELSE POk(Compare(OpName(Tok(toks, l.next).v), l.node, r.node), r.next)
                        : r \in {PLevel(toks, l.next + 1, "arith")}}
                    : TRUE
                    : l \in {PLevel(toks, p, "arith")}}
                : TRUE
      [] lvl = "factor" ->
            IF ~IsOp(Tok(toks, p), {"+", "-"}) THEN PLevel(toks, p, "power")
            ELSE CHOOSE x \in
                {IF a.st # "ok" THEN a
                 ELSE POk(UnaryOp(IF Tok(toks, p).v = "-" THEN "USub" ELSE "UAdd", a.node),
                          a.next)
                    : a \in {PLevel(toks, p + 1, "factor")}}
                : TRUE
      [] lvl = "power" ->
            CHOOSE x \in
                {IF a.st # "ok" \/ ~IsOp(Tok(toks, a.next), {"**"}) THEN a
                 ELSE CHOOSE y \in
                    {IF r.st # "ok" THEN r ELSE POk(BinOp("Pow", a.node, r.node), r.next)
                        : r \in {PLevel(toks, a.next + 1, "factor")}}
                    : TRUE
                    : a \in {PTrailers(toks, a0) : a0 \in {PLevel(toks, p, "atom")}}}
                : TRUE
      [] lvl = "atom" ->
            CHOOSE x \in
                {CASE tok.k = "num" -> POk(Num(tok.v), p + 1)
                   [] tok.k = "name" -> POk(Name(tok.v), p + 1)
                   [] tok.k = "str" -> POk(Str(tok.v), p + 1)
                   [] IsOp(tok, {"("}) ->
                        IF IsOp(Tok(toks, p + 1), {")"}) THEN POk(Tuple(<<>>), p + 2)
                        ELSE CHOOSE y \in
                            {IF e.st # "ok" THEN e
                             ELSE IF IsOp(Tok(toks, e.next), {")"}) THEN POk(e.node, e.next + 1)
                             ELSE PErr
                                : e \in {PLevel(toks, p + 1, "testlist")}}
                            : TRUE
                   [] OTHER -> PErr
                    : tok \in {Tok(toks, p)}}
                : TRUE

\* ast.parse(text, mode="eval"): the tree, or the SyntaxError
ast_parse(text) ==
    IF text # <<>> /\ Head(text) = " " THEN Raise("SyntaxError", "unexpected indent", "")
    ELSE CHOOSE x \in
        {IF toks # <<>> /\ toks[Len(toks)].k = "bad"
         THEN Raise("SyntaxError", "invalid syntax", "")
         ELSE CHOOSE y \in
            {IF r.st = "Unsupported" THEN Raise("Unsupported", "outside the model", "")
             ELSE IF r.st = "ok" /\ r.next = Len(toks) + 1 THEN Ok(r.node)
             ELSE Raise("SyntaxError", "invalid syntax", "")
                : r \in {PLevel(toks, 1, "testlist")}}
            : TRUE
            : toks \in {Tokenize(text, 1, <<>>)}}
        : TRUE

\* ----------------------------------------- evaluating a text (a formula)
\* safe_eval_expr(expr, namespace) for the text expr: _parse, then eval
safe_eval_expr_text(text, namespace) ==
    CHOOSE r \in
        {IF p.st = "raise" THEN [res |-> p, ran |-> {}] ELSE safe_eval_expr(p.v, namespace)
            : p \in {ast_parse(text)}}
        : TRUE

\* safe_eval(expr, variables) for the text expr, which it strips first
safe_eval_text(text, vs) ==
    CHOOSE r \in
        {IF p.st = "raise" THEN [res |-> p, ran |-> {}] ELSE safe_eval(p.v, vs)
            : p \in {ast_parse(Strip(text))}}
        : TRUE

\* -------------------------------------------- inputs of the translator
\* Conditions and values, in Excel notation, that an IF is built from
Conds ==
    {<<"A", ">", "0">>,
     <<"A", "=", "B">>,
     <<"A", "<", ">", "1">>,
     <<"A", "N", "D", "(", "A", ">", "0", ",", "B", "=", "0", ")">>,
     <<"O", "R", "(", "A", ",", "B", ")">>,
     <<"I", "F", "(", "A", ",", "B", ",", "1", ")">>}

Vals ==
    {<<"1">>,
     <<"A", "+", "2">>,
     <<"1", "/", "A">>,
     <<"I", "F", "(", "B", ";", "1", ";", "2", ")">>,
     <<"2", "^", "B">>}

Seps == {<<",">>,
     <<";">>,
     <<",", " ">>}

\* A well-formed IF: its condition, its two values and the separator used
IfShapes == [cond : Conds, a : Vals, b : Vals, sep : Seps]

IfText(sh) ==
    <<"I", "F", "(">> \o sh.cond \o sh.sep \o sh.a \o sh.sep \o sh.b \o <<")">>

\* NAME(arg1,arg2,...)
CallText(name, args) == name \o <<"(">> \o Join(<<",">>, args) \o <<")">>

NotArgs == {<<"B">>,
     <<"A", ">", "0">>,
     <<"A", "=", "B">>}

\* IF calls of every argument count but three
ArityArgs ==
    {<<>>, <<<<"A", ">", "0">>>>, <<<<"A", ">", "0">>, <<"1">>>>,
     <<<<"A", ">", "0">>, <<"1">>, <<"2">>, <<"3">>>>,
     <<<<"B">>, <<"A">>, <<"2">>, <<"3">>, <<"4">>>>}

\* What stands between the quotes of a string argument
QuotedContents == {<<"x">>,
     <<")">>,
     <<"(">>,
     <<",">>,
     <<";">>,
     <<"x", ",", "y">>,
     <<"(", "x", ")">>}

Quotes == {"\"", "'"}

\* NAME(A="...",1,2): a call whose first argument compares A with a string
QuotedShapes == [name : {StructuralNames[1], StructuralNames[2]}, q : Quotes, s : QuotedContents]

QuotedArg(sh) == <<"A", "=", sh.q>> \o sh.s \o <<sh.q>>

QuotedText(sh) == CallText(sh.name, <<QuotedArg(sh), <<"1">>, <<"2">>>>)

\* NAME(NAME(...NAME(B)...)) with n calls
RECURSIVE Nest(_, _)
Nest(name, n) == IF n = 0 THEN <<"B">> ELSE name \o <<"(">> \o Nest(name, n - 1) \o <<")">>

NestShapes == [name : Range(StructuralNames), n : 1..(GuardLimit + 2)]

\* Texts with unbalanced parentheses, in lower case, with Persian characters,
\* with simple functions
OtherTexts ==
    {<<"I", "F", "(", "1", ",", "2", ",", "3">>,
     <<"I", "F", "(">>,
     <<"I", "F", "(", "(", "(">>,
     <<"I", "F", "(", "A", ",", "1", ",", "2", ")", ")">>,
     <<"i", "f", "(", "A", ",", "1", ",", "2", ")">>,
     <<"I", "F", " ", "(", "A", ";", "1", ";", "2", ")">>,
     <<"=", "I", "F", "(", "A", ",", "1", ",", "2", ")">>,
     <<" ", "=", " ", "A", "+", "1", " ">>,
     <<"A", "B", "S", "(", "A", "-", "2", ")">>,
     <<"a", "b", "s", "(", "A", "-", "2", ")">>,
     <<"R", "o", "u", "n", "d", "(", "A", "/", "2", ")">>,
     <<"C", "E", "I", "L", "I", "N", "G", "(", "A", "/", "2", ")">>,
     <<"c", "e", "i", "l", "(", "A", "/", "2", ")">>,
     <<"I", "N", "T", " ", "(", "A", "/", "2", ")">>,
     <<"R", "O", "U", "N", "D", "U", "P", "(", "A", "/", "2", ")">>,
     <<"F", "L", "O", "O", "R", "(", "A", "/", "2", ")">>,
     <<"T", "R", "U", "E">>,
     <<"f", "a", "l", "s", "e">>,
     <<"A", " ", "A", "N", "D", " ", "B">>,
     <<"T", "R", "U", "E", "A">>,
     <<"A", ">", "=", "B">>,
     <<"A", "<", "=", "1">>,
     <<"A", "=", "=", "1">>,
     <<"A", "!", "=", "B">>,
     <<"(", "A", "+", "B", ")", "*", "2">>,
     <<"X", "I", "F", "(", "A", ")">>,
     <<"A", "*", "B", "-", "2">>}
    \cup {<<"fa1", "+", "A">>, <<"A", "fa_comma", "B">>, <<"A", "fa;", "B">>, <<"fa2", "fa%", "fa3">>}

Alphabet == {"A", "1", "=", "<", ">", "^", " "}

\* Every text of at most MaxLen characters of the alphabet
ShortTexts == UNION {[1..n -> Alphabet] : n \in 0..MaxLen}

StructuredTexts ==
    {IfText(sh) : sh \in IfShapes}
    \cup {CallText(StructuralNames[4], <<a>>) : a \in NotArgs}
    \cup {CallText(StructuralNames[1], args) : args \in ArityArgs}
    \cup {QuotedText(sh) : sh \in QuotedShapes}
    \cup {Nest(sh.name, sh.n) : sh \in NestShapes}
    \cup OtherTexts

ExcelNamespaces == {("A" :> Number(a)) @@ ("B" :> Number(b)) : a, b \in 0..MaxVal}

\* ------------------------------------------ the translator's state machine
\* A formula text and the variables it is evaluated with.
InitExcel ==
    /\ pc = "excel"
    /\ \/ raw \in StructuredTexts /\ variables \in ExcelNamespaces
       \/ raw \in ShortTexts /\ variables = ("A" :> Number(MaxVal)) @@ ("B" :> Number(0))
    /\ translated = NoTranslation
    /\ expr = Num(0)
    /\ out = NoCall
    /\ EngineIdle
    /\ SheetIdle
    /\ LayoutIdle
    /\ PriorityIdle

\* excel_to_python(raw), as FormulaEngine.__init__ runs it on each formula
Translate ==
    /\ pc = "excel"
    /\ translated = NoTranslation
    /\ translated' = excel_to_python(raw)
    /\ UNCHANGED <<expr, variables, out, formulas, deps, vars, cache, nEvals, last, plan, pc>>
    /\ UNCHANGED <<sheetVars, raw, layoutVars, priorityVars>>

\* safe_eval_expr(translated, variables)
EvalTranslatedExpr ==
    /\ pc = "excel"
    /\ translated # NoTranslation
    /\ out' = [fn |-> "safe_eval_expr"] @@ safe_eval_expr_text(translated.text, variables)
    /\ UNCHANGED <<expr, variables, formulas, deps, vars, cache, nEvals, last, plan, pc>>
    /\ UNCHANGED <<sheetVars, excelVars, layoutVars, priorityVars>>

\* safe_eval(translated, variables)
EvalTranslated ==
    /\ pc = "excel"
    /\ translated # NoTranslation
    /\ out' = [fn |-> "safe_eval"] @@ safe_eval_text(translated.text, variables)
    /\ UNCHANGED <<expr, variables, formulas, deps, vars, cache, nEvals, last, plan, pc>>
    /\ UNCHANGED <<sheetVars, excelVars, layoutVars, priorityVars>>

NextExcel == Translate \/ EvalTranslatedExpr \/ EvalTranslated

SpecExcel == InitExcel /\ [][NextExcel]_vars_all

\* No text of the model leaves the Python that the parser of the model reads.
ParserCoversInputs == out # NoCall => ~(out.res.st = "raise" /\ out.res.exc = "Unsupported")

\* ------------------------------------------------ claims on the translator
\* excel_to_python(raw) was run.
Translated == pc = "excel" /\ translated # NoTranslation

\* The translation of raw was evaluated with the variables.
Evaluated == Translated /\ out # NoCall

\* The outcome of translating the Excel text part alone and evaluating it
\* with the variables, by the evaluator fn.
PartValue(part, fn) ==
    IF fn = "safe_eval"
    THEN safe_eval_text(excel_to_python(part).text, variables).res
    ELSE safe_eval_expr_text(excel_to_python(part).text, variables).res

\* C11: for a well-formed IF(cond, a, b), with IF / AND / OR calls nested in
\* its arguments and "," or ";" (also followed by a blank) as separator, the
\* evaluation of the translation gives what a gives when cond is true and
\* what b gives otherwise (an exception of cond, or of the value selected,
\* comes out as it is; the value not selected is not evaluated).
C11_IfSelectsByCondition ==
    \A sh \in IfShapes :
        (raw = IfText(sh) /\ Evaluated) =>
            \E c \in {PartValue(sh.cond, out.fn)} :
                out.res = IF c.st = "raise" THEN c
                          ELSE IF Truthy(c.v) THEN PartValue(sh.a, out.fn)
                          ELSE PartValue(sh.b, out.fn)

\* An IF with ";" as separator, a nested IF as condition and as first value,
\* whose condition is false, was translated and evaluated to its second value.
C11_Witness ==
    \E sh \in IfShapes :
        /\ raw = IfText(sh)
        /\ sh.sep = <<";">>
        /\ sh.cond = <<"I", "F", "(", "A", ",", "B", ",", "1", ")">>
        /\ sh.a = <<"I", "F", "(", "B", ";", "1", ";", "2", ")">>
        /\ sh.b = <<"A", "+", "2">>
        /\ Evaluated
        /\ variables["A"] = Number(1) /\ variables["B"] = Number(0)
        /\ out.res = Ok(Number(3))

\* C12 as claimed: the translation of NOT(a) is accepted by safe_eval and
\* safe_eval_expr and evaluates to the negation of a.
C12_AsClaimed ==
    \A a \in NotArgs :
        (raw = CallText(StructuralNames[4], <<a>>) /\ Evaluated) =>
            \E v \in {PartValue(a, out.fn)} :
                v.st = "ok" => out.res = Ok(Bool(~Truthy(v.v)))

\* C13 as claimed: an IF call with 2, or with 4 and more, arguments is
\* translated without an exception into a text that the evaluators accept
\* and evaluate to a value.
C13_AsClaimed ==
    \A args \in ArityArgs :
        (Len(args) \in {2} \cup (4..5) /\ raw = CallText(StructuralNames[1], args)
            /\ Evaluated) =>
            (translated.st = "ok" /\ out.res.st = "ok")

\* C14 as claimed: a "(", ")", "," or ";" between the quotes of a string
\* argument neither ends or starts a call nor separates arguments, so a call
\* NAME(A="...",1,2) is converted from exactly its three arguments.
C14_AsClaimed ==
    \A sh \in QuotedShapes :
        (raw = QuotedText(sh) /\ Translated) =>
            translated.text = Conv(sh.name, <<SubEquals(QuotedArg(sh)), <<"1">>, <<"2">>>>)

\* C15 as claimed: _replace_fn makes at most GuardLimit (2000 in the code)
\* substitutions per structural function name.
C15_AsClaimed ==
    Translated => \A i \in 1..Len(StructuralNames) : translated.subs[i] <= GuardLimit

\* C15 as amended: excel_to_python returns on every text, and per structural
\* function name _replace_fn makes at most GuardLimit + 1 substitutions (2001
\* in the code); it stops with the diagnostic exactly when it has made that many.
C15_BoundedRewriting ==
    Translated =>
        /\ translated.st = "ok"
        /\ \A i \in 1..Len(StructuralNames) :
              /\ translated.subs[i] <= GuardLimit + 1
              /\ translated.hits[i] <=> translated.subs[i] = GuardLimit + 1

\* A text with more nested NOT calls than the guard allows was translated:
\* the loop stopped on the guard and left a NOT call behind.
C15_Witness ==
    /\ Translated
    /\ raw = Nest(StructuralNames[4], GuardLimit + 2)
    /\ translated.hits[4]
    /\ Search(translated.text, StructuralNames[4], FALSE).start # 0

\* tail of a text after its leading "="
WithoutLeadingEq(t) == IF t # <<>> /\ Head(t) = "=" THEN Tail(t) ELSE t

\* The text holds the characters of w somewhere.
Contains(t, w) == \E p \in 1..Len(t) : HoldsAt(t, p, w, FALSE)

\* C16 as claimed: a text without "IF(", Persian digits, "<>" and "^" comes
\* back unchanged, except that a leading "=" is removed.
C16_AsClaimed ==
    (/\ Translated
     /\ ~Contains(raw, <<"I", "F", "(">>)
     /\ ~Contains(raw, <<"<", ">">>)
     /\ ~Contains(raw, <<"^">>)
     /\ \A p \in 1..Len(raw) : raw[p] \notin DOMAIN _FA_TO_EN) =>
        translated.text = WithoutLeadingEq(raw)

\* A text that no step of excel_to_python changes, but for a leading "=":
\* no blank at either end or after the leading "=", no Persian digit or
\* separator, no "<>", no "^", no "=" that stands alone (outside ==, <=, >=,
\* !=), no word TRUE or FALSE unless spelled True, False, no call of IF, AND,
\* OR, NOT, and no call of a function of SIMPLE_MAP unless spelled as replaced.
Plain(t) ==
    LET body == WithoutLeadingEq(t)
    IN  /\ Strip(t) = t
        /\ Strip(body) = body
        /\ \A p \in 1..Len(t) : t[p] \notin DOMAIN _FA_TO_EN
        /\ ~Contains(t, <<"<", ">">>)
        /\ ~Contains(t, <<"^">>)
        /\ \A p \in 1..Len(body) :
              body[p] = "=" => \/ (p > 1 /\ body[p - 1] \in {"<", ">", "!", "="})
                               \/ (p < Len(body) /\ body[p + 1] = "=")
        /\ \A w \in {<<"T", "r", "u", "e">>, <<"F", "a", "l", "s", "e">>} :
              \A p \in 1..Len(body) :
                 (HoldsAt(body, p, w, TRUE) /\ WordStartsAt(body, p)
                    /\ WordEndsAt(body, p + Len(w) - 1)) => HoldsAt(body, p, w, FALSE)
        /\ \A i \in 1..Len(StructuralNames) : Search(body, StructuralNames[i], FALSE).start = 0
        /\ \A i \in 1..Len(SIMPLE_MAP) : \A k \in 1..Len(SIMPLE_MAP[i].names) :
              \A p \in 1..Len(body) :
                 CallAt(body, p, SIMPLE_MAP[i].names[k], TRUE) # 0 =>
                    SubSeq(body, p, CallAt(body, p, SIMPLE_MAP[i].names[k], TRUE))
                        = SIMPLE_MAP[i].repl

\* C16 as amended: a text that holds none of the constructs excel_to_python
\* rewrites comes back unchanged, except that a leading "=" is removed.
C16_PlainTextUnchanged ==
    (Translated /\ Plain(raw)) => translated.text = WithoutLeadingEq(raw)

\* A plain formula with a leading "=" was translated.
C16_Witness ==
    /\ Translated
    /\ Plain(raw)
    /\ Len(raw) >= 2
    /\ Head(raw) = "="
    /\ translated.text = Tail(raw)

\* ------------------------------------- claims on validation and on seeds
\* An error about a name that nothing defines
IsNameError(res) ==
    /\ res.st = "raise"
    /\ \/ res.exc = "NameError"
       \/ res.exc = "ValueError" /\ res.msg \in {"Undefined variable or formula",
                                                  "Unknown name in expression"}

\* C25 as claimed: when validate() returns an empty mapping, eval_many over
\* the formula keys ends without an error about an undefined or unknown
\* name, also when a formula references its own key.
C25_AsClaimed ==
    (/\ last.op = "eval_many"
     /\ Range(last.keys) \subseteq DOMAIN formulas
     /\ validate(formulas, deps, vars) = Ok(EmptyMap)) =>
        ~IsNameError(last.res)

\* The seed variables that have a formula too
SeededFormulas == DOMAIN vars \cap DOMAIN formulas

\* C30: for a key that is a seed variable and a formula key, eval(key)
\* returns the seed value, the expression of its formula is never evaluated,
\* the cache holds the seed value for it, and the cached value of every
\* formula that references it is the value of its expression under the seed
\* value.
C30_SeedTakesPrecedence ==
    \A k \in SeededFormulas :
        /\ nEvals[k] = 0
        /\ k \in DOMAIN cache => cache[k] = vars[k]
        /\ (last.op = "eval" /\ last.key = k) =>
              (last.res = Ok(vars[k]) /\ k \notin Range(last.tried))
        /\ \A j \in DOMAIN cache \ DOMAIN vars :
              (j \in DOMAIN formulas /\ k \in NamesIn(formulas[j])) =>
                  Ok(cache[j]) = safe_eval_expr(formulas[j], vars @@ cache).res

\* eval was called for a seed variable that has a formula, after a formula
\* that references it was evaluated.
C30_Witness ==
    /\ last.op = "eval"
    /\ last.key \in SeededFormulas
    /\ last.res.st = "ok"
    /\ \E j \in DOMAIN cache \ DOMAIN vars :
          j \in DOMAIN formulas /\ last.key \in NamesIn(formulas[j])

\* -------- claims on required widths that are not positive --------

\* C21 as claimed: for a required width <= 0 and a catalog that is not empty
\* choose_per_sheet_and_width returns a result and raises nothing.
C21_AsClaimed ==
    (choice.fn # "none" /\ fixed_widths # <<>> /\ required_w <= 0) => choice.res.st = "ok"

\* ------------------------------------------ cuts per sheet, width by width

\* A length is u eighths of a centimetre plus t fifths of the tolerance 1e-9 cm;
\* t stays far below an eighth, so lengths compare by u and then by t. Sheet
\* widths are whole centimetres.
Cm(n) == [u |-> 8 * n, t |-> 0]

Plus(x, y) == [u |-> x.u + y.u, t |-> x.t + y.t]

Minus(x, y) == [u |-> x.u - y.u, t |-> x.t - y.t]

Times(f, x) == [u |-> f * x.u, t |-> f * x.t]

Less(x, y) == x.u < y.u \/ (x.u = y.u /\ x.t < y.t)

Leq(x, y) == ~Less(y, x)

\* 1e-9, the slack best_for_each_width grants a fit
Tolerance == [u |-> 0, t |-> 5]

\* math.floor(x / k) and int(x // k), for k > 0 of at least an eighth
FloorDiv(x, k) ==
    CHOOSE q \in {IF Leq(Times(q0, k), x) THEN q0 ELSE q0 - 1 : q0 \in {x.u \div k.u}} : TRUE

\* round(x, 2), in hundredths: the nearest, a tie to the even one
Round2(x) ==
    LET halves == 25 * x.u
        q == halves \div 2
    IN  IF halves % 2 = 0 THEN q
        ELSE IF x.t > 0 THEN q + 1
        ELSE IF x.t < 0 THEN q
        ELSE IF q % 2 = 0 THEN q ELSE q + 1

\* None, and a value that is not None
None == <<>>

Some(v) == <<v>>

\* fmax of best_for_each_width when the caller names none
DefaultFmax == 30

\* a row is marked ok below this waste, in cm
OkWasteLimit == 11

\* sorted(S), for a set of widths
Ascending(S) ==
    CHOOSE s \in [1..Cardinality(S) -> S] : \A i, j \in 1..Cardinality(S) : i < j => s[i] < s[j]

\* A variant that tries the cut counts from 1 upwards.
RECURSIVE SmallestFit(_, _, _, _)
SmallestFit(k15v, w, f, fmax) ==
    IF f > fmax THEN 0
    ELSE IF Leq(Times(f, k15v), Plus(Cm(w), Tolerance)) THEN f
    ELSE SmallestFit(k15v, w, f + 1, fmax)

LargestFit_ascending(k15v, w, f) == SmallestFit(k15v, w, 1, f)

\* for f in range(int(fmax), 0, -1): the first f with f * k15v <= w + 1e-9; 0 for none
RECURSIVE LargestFit(_, _, _)
LargestFit(k15v, w, f) ==
    IF f < 1 THEN 0
    ELSE IF Leq(Times(f, k15v), Plus(Cm(w), Tolerance)) THEN f
    ELSE LargestFit(k15v, w, f - 1)

ZeroFitRow(w) ==
    [sheet_width |-> w, f24 |-> 0, I22 |-> None, E28 |-> None, need |-> None, ok |-> FALSE]

\* A variant that counts an exact fit as acceptable.
FitRow_zero_ok(k15v, w, e20v, f) ==
    LET need == Times(f, k15v)
        waste == Minus(Cm(w), need)
    IN  [sheet_width |-> w, f24 |-> f,
         I22 |-> Some(Round2(waste)),
         E28 |-> Some(Round2(Times(e20v, need))),
         need |-> Some(Round2(need)),
         ok |-> Leq(Cm(0), waste) /\ Less(waste, Cm(OkWasteLimit))]

\* the row appended for the first f that fits
FitRow(k15v, w, e20v, f) ==
    LET need == Times(f, k15v)
        waste == Minus(Cm(w), need)
    IN  [sheet_width |-> w, f24 |-> f,
         I22 |-> Some(Round2(waste)),
         E28 |-> Some(Round2(Times(e20v, need))),
         need |-> Some(Round2(need)),
         ok |-> Less(Cm(0), waste) /\ Less(waste, Cm(OkWasteLimit))]

\* best_for_each_width(k15, widths, e20, fmax) -> rows
best_for_each_width(k15v, widths, e20v, fmax) ==
    LET ws == Ascending({w \in Range(widths) : w > 0})
    IN  IF Leq(k15v, Cm(0)) \/ ws = <<>>
        THEN [i \in 1..Len(ws) |-> ZeroFitRow(ws[i])]
        ELSE [i \in 1..Len(ws) |->
                CHOOSE row \in {IF f = 0 THEN ZeroFitRow(ws[i]) ELSE FitRow(k15v, ws[i], e20v, f)
                                   : f \in {LargestFit(k15v, ws[i], fmax)}} : TRUE]

\* ------------------------------------------ utils.choose_per_sheet_and_width

\* max_waste_cm when the caller names none
DefaultMaxWaste == 11

NoteFits == "sheet width and waste"

NoteWarning == "warning: the waste is high"

NoteNoLayout == "the chosen size can be laid out on no fixed width"

\* candidate < best, for tuples (waste, count, W)
CandidateLess(a, b) ==
    \/ Less(a.waste, b.waste)
    \/ a.waste = b.waste /\ a.count < b.count
    \/ a.waste = b.waste /\ a.count = b.count /\ a.W < b.W

\* A variant that keeps the first candidate it meets.
LeastCandidate_first(required, fixed, limit, i, best) ==
    LET fits == {j \in i..Len(fixed) :
                    /\ Less(Cm(0), required)
                    /\ FloorDiv(Cm(fixed[j]), required) >= 1
                    /\ (limit = None \/
                        Less(Minus(Cm(fixed[j]),
                                   Times(FloorDiv(Cm(fixed[j]), required), required)), limit[1]))}
    IN  IF best # None \/ fits = {} THEN best
        ELSE LET j == CHOOSE x \in fits : \A y \in fits : x <= y
                 count == FloorDiv(Cm(fixed[j]), required)
             IN  Some([waste |-> Minus(Cm(fixed[j]), Times(count, required)),
                       count |-> count, W |-> fixed[j]])

\* One pass over fixed_widths from index i on: the least candidate (None for
\* none), among those with waste < limit when a limit is given.
RECURSIVE LeastCandidate(_, _, _, _, _)
LeastCandidate(required, fixed, limit, i, best) ==
    IF i > Len(fixed) THEN best
    ELSE IF Leq(required, Cm(0)) THEN LeastCandidate(required, fixed, limit, i + 1, best)
    ELSE LeastCandidate(required, fixed, limit, i + 1,
            CHOOSE b \in
                {IF count < 1 THEN best
                 ELSE LET waste == Minus(Cm(fixed[i]), Times(count, required))
                          candidate == [waste |-> waste, count |-> count, W |-> fixed[i]]
                      IN  IF limit # None /\ ~Less(waste, limit[1]) THEN best
                          ELSE IF best = None \/ CandidateLess(candidate, best[1])
                          THEN Some(candidate)
                          ELSE best
                    : count \in {FloorDiv(Cm(fixed[i]), required)}} : TRUE)

\* choose_per_sheet_and_width(required_width_cm, fixed_widths, max_waste_cm)
\*   -> (best_count, chosen_width, waste, warning, note)
utils_choose_per_sheet_and_width(required, fixed, max_waste_cm) ==
    CHOOSE r \in
        {IF best # None
         THEN [count |-> best[1].count, W |-> best[1].W, waste |-> best[1].waste,
               warning |-> FALSE, note |-> NoteFits]
         ELSE CHOOSE r2 \in
                {IF fallback # None
                 THEN [count |-> fallback[1].count, W |-> fallback[1].W,
                       waste |-> fallback[1].waste, warning |-> TRUE, note |-> NoteWarning]
                 ELSE [count |-> 0, W |-> 0, waste |-> Cm(0), warning |-> TRUE,
                       note |-> NoteNoLayout]
                    : fallback \in {LeastCandidate(required, fixed, None, 1, None)}} : TRUE
            : best \in {LeastCandidate(required, fixed, Some(Cm(max_waste_cm)), 1, None)}} : TRUE

\* ------------------------------------------ price_form_view: table and final stage

\* the catalog price_form_view falls back on when the settings name none
DefaultWidths == <<80, 90, 100, 110, 120, 125, 140>>

\* build_rows_for_widths(k15, widths, e20_len): one row per entry, in list order
build_rows_for_widths(kf, widths, e20_len) ==
    [i \in 1..Len(widths) |->
        CHOOSE row \in
            {[sheet_width |-> widths[i],
              f24 |-> f24,
              I22 |-> IF f24 > 0 THEN Minus(Cm(widths[i]), Times(f24, kf)) ELSE Cm(widths[i]),
              E28 |-> Rat(widths[i] * e20_len, IF f24 > 0 THEN f24 ELSE 1)]
                : f24 \in {IF Less(Cm(0), kf)
                           THEN Max2(0, FloorDiv(Cm(widths[i]), kf)) ELSE 0}} : TRUE]

\* min(rows of idx, key = I22): the first of the rows with the least I22
MinByI22(rows, idx) ==
    CHOOSE i \in idx : \A j \in idx :
        Less(rows[i].I22, rows[j].I22) \/ (rows[i].I22 = rows[j].I22 /\ i <= j)

\* pick_best_default(rows): the least waste among the rows with 0 < I22 < 11,
\* else among all rows; None for no rows
pick_best_default(rows) ==
    LET greens == {i \in 1..Len(rows) :
                      Less(Cm(0), rows[i].I22) /\ Less(rows[i].I22, Cm(OkWasteLimit))}
        nonnull == 1..Len(rows)
    IN  IF greens # {} THEN Some(rows[MinByI22(rows, greens)])
        ELSE IF nonnull # {} THEN Some(rows[MinByI22(rows, nonnull)])
        ELSE None

\* next(r for r in rows if abs(r.sheet_width - w_try) < 1e-6), None for none
RowOfWidth(rows, w_try) ==
    LET idx == {i \in 1..Len(rows) : rows[i].sheet_width = w_try}
    IN  IF idx = {} THEN None ELSE Some(rows[CHOOSE i \in idx : \A j \in idx : i <= j])

\* The part of price_form_view from the table of stage 1 to the sheet written
\* onto the quotation: K15 = E15 + G15 + 3.5 + E46 is handed in as kf.
price_form_view(kf, widths, e20_preview, posted_choice, stage) ==
    LET rows == build_rows_for_widths(
                    kf, IF widths = <<>> THEN DefaultWidths ELSE widths, e20_preview)
        best_default == pick_best_default(rows)
        matched == IF posted_choice = None THEN None ELSE RowOfWidth(rows, posted_choice[1])
        chosen == IF matched = None THEN best_default ELSE matched
        shown == [fn |-> "price_form_view", stage |-> stage, posted |-> posted_choice,
                  rows |-> rows, best_default |-> best_default, matched |-> matched]
    IN  IF stage # "final" THEN [st |-> "s1"] @@ shown
        ELSE IF chosen = None \/ chosen[1].f24 <= 0
        THEN [st |-> "rejected", error |-> "no valid F24 chosen"] @@ shown
        ELSE [st |-> "final",
              M24 |-> chosen[1].sheet_width,
              F24 |-> Max2(1, chosen[1].f24),
              I22 |-> chosen[1].I22,
              F24_per_sheet_count |-> Max2(1, chosen[1].f24),
              waste_warning |-> Leq(Cm(OkWasteLimit), chosen[1].I22)] @@ shown

\* ------------------------------------------ the layout state machine

\* Sheet widths, in cm; 0 stands for the entries that are not a positive width.
SheetWidths == {0, 4, 9, 16, 30}

\* The catalogs: lists of sheet widths, in any order, repeats allowed.
SheetCatalogs == UNION {[1..n -> SheetWidths] : n \in 0..MaxCatalog}

\* Widths of one cut, in eighths of a cm: -1, 0, 0.125, 0.25, 0.375, 3.125,
\* 3.875, 4, 5 and 19 cm, each positive one also a little below and above.
CutWidths ==
    {[u |-> u, t |-> t] : u \in {1, 2, 3, 25, 31, 32, 40, 152}, t \in {-2, 0, 2}}
        \cup {[u |-> u, t |-> 0] : u \in {-8, 0}}

\* E20, the sheet length, in cm
SheetLengths == {0, 3}

Fmaxes == {2, DefaultFmax}

MaxWastes == {1, DefaultMaxWaste}

\* The posted sheet_choice: none, or a width
PostedChoices == {None} \cup {Some(w) : w \in {9, 16}}

InitLayout ==
    /\ pc = "layout"
    /\ k15 \in CutWidths
    /\ catalog \in SheetCatalogs
    /\ table = NoTable
    /\ EvaluatorIdle
    /\ EngineIdle
    /\ SheetIdle
    /\ ExcelIdle
    /\ PriorityIdle

\* best_for_each_width(k15, widths, e20, fmax)
BestForEachWidth ==
    /\ pc = "layout"
    /\ \E e20 \in SheetLengths, fmax \in Fmaxes :
          table' = [fn |-> "best_for_each_width", e20 |-> e20, fmax |-> fmax,
                    rows |-> best_for_each_width(k15, catalog, e20, fmax)]
    /\ UNCHANGED <<expr, variables, out, formulas, deps, vars, cache, nEvals, last, plan>>
    /\ UNCHANGED <<sheetVars, excelVars, priorityVars, k15, catalog, pc>>

\* utils.choose_per_sheet_and_width(required_width_cm, fixed_widths, max_waste_cm)
UtilsChoosePerSheet ==
    /\ pc = "layout"
    /\ \E max_waste_cm \in MaxWastes :
          table' = [fn |-> "choose_per_sheet_and_width", max_waste_cm |-> max_waste_cm,
                    res |-> utils_choose_per_sheet_and_width(k15, catalog, max_waste_cm)]
    /\ UNCHANGED <<expr, variables, out, formulas, deps, vars, cache, nEvals, last, plan>>
    /\ UNCHANGED <<sheetVars, excelVars, priorityVars, k15, catalog, pc>>

\* price_form_view on a valid form; its K15 is a sum of two-decimal fields
PriceFormView ==
    /\ pc = "layout"
    /\ k15.t = 0
    /\ k15.u % 2 = 0
    /\ \E e20 \in SheetLengths, posted \in PostedChoices, stage \in {"s1", "final"} :
          table' = price_form_view(k15, catalog, e20, posted, stage)
    /\ UNCHANGED <<expr, variables, out, formulas, deps, vars, cache, nEvals, last, plan>>
    /\ UNCHANGED <<sheetVars, excelVars, priorityVars, k15, catalog, pc>>

NextLayout == BestForEachWidth \/ UtilsChoosePerSheet \/ PriceFormView

SpecLayout == InitLayout /\ [][NextLayout]_vars_all

\* ------------------------------------------ claims on the sheet layouts

\* The cuts of k15 that fit a width w, for k15 > 0: the c with c * k15 <= w < (c + 1) * k15.
Cuts(w) ==
    CHOOSE c \in 0..(8 * w) : Leq(Times(c, k15), Cm(w)) /\ Less(Cm(w), Times(c + 1, k15))

\* What a width w has left over after its cuts.
WasteAt(w) == Minus(Cm(w), Times(Cuts(w), k15))

\* The widths of the catalog that take at least one cut.
FitWidths == IF Less(Cm(0), k15) THEN {w \in Range(catalog) : Leq(k15, Cm(w))} ELSE {}

UtilsCalled == table.fn = "choose_per_sheet_and_width"

C29_WitnessWarning ==
    /\ UtilsCalled
    /\ FitWidths # {}
    /\ table.res.warning
    /\ table.max_waste_cm = DefaultMaxWaste

C29_WitnessTie ==
    /\ UtilsCalled
    /\ Cardinality(FitWidths) = 2
    /\ \A w \in FitWidths : WasteAt(w) = table.res.waste

TableCalled == table.fn = "best_for_each_width"

\* The distinct positive widths of the catalog.
PositiveWidths == {w \in Range(catalog) : w > 0}

\* The rows are one per distinct positive width, by ascending width.
OneRowPerWidth ==
    /\ Len(table.rows) = Cardinality(PositiveWidths)
    /\ \A i \in 1..Len(table.rows) : table.rows[i].sheet_width \in PositiveWidths
    /\ \A i, j \in 1..Len(table.rows) :
          i < j => table.rows[i].sheet_width < table.rows[j].sheet_width

\* The waste of a row: its width less its cuts.
RowWaste(r) == Minus(Cm(r.sheet_width), Times(r.f24, k15))

\* c hundredths are the length x exactly.
ExactCents(x, c) == x.t = 0 /\ 2 * c = 25 * x.u

\* c is a hundredth nearest to the length x.
NearestCents(x, c) ==
    \/ 2 * c = 25 * x.u
    \/ 2 * c = 25 * x.u + 1 /\ x.t >= 0
    \/ 2 * c = 25 * x.u - 1 /\ x.t <= 0

C22_WitnessTolerance ==
    /\ TableCalled
    /\ \E i \in 1..Len(table.rows) :
          /\ table.rows[i].f24 >= 1
          /\ Less(RowWaste(table.rows[i]), Cm(0))

\* C23: a row is marked ok exactly when it takes a cut and 0 < waste < 11, for
\* the waste width - f24 * k15: an exact fit, a waste >= 11 and a zero-fit row
\* are not ok.
C23_OkExactlyBetween ==
    TableCalled =>
        \A i \in 1..Len(table.rows) :
            LET r == table.rows[i]
            IN  r.ok <=> /\ r.f24 >= 1
                         /\ Less(Cm(0), RowWaste(r))
                         /\ Less(RowWaste(r), Cm(OkWasteLimit))

\* An exact fit next to an acceptable row.
C23_Witness ==
    /\ TableCalled
    /\ Len(table.rows) = 2
    /\ \E i \in 1..2 :
          table.rows[i].f24 >= 1 /\ RowWaste(table.rows[i]) = Cm(0) /\ ~table.rows[i].ok
    /\ \E i \in 1..2 : table.rows[i].ok

\* A row that wastes 11 cm or more next to a zero-fit row.
C23_WitnessHighWaste ==
    /\ TableCalled
    /\ Len(table.rows) = 2
    /\ \E i \in 1..2 :
          /\ table.rows[i].f24 >= 1
          /\ Leq(Cm(OkWasteLimit), RowWaste(table.rows[i]))
          /\ ~table.rows[i].ok
    /\ \E i \in 1..2 : table.rows[i].f24 = 0 /\ ~table.rows[i].ok

ViewCalled == table.fn = "price_form_view"

\* The catalog price_form_view builds its rows on.
ViewWidths == IF catalog = <<>> THEN DefaultWidths ELSE catalog

\* Some width of that catalog takes at least one cut: floor(width / K15) >= 1.
SomeWidthFits == Less(Cm(0), k15) /\ \E i \in 1..Len(ViewWidths) : Leq(k15, Cm(ViewWidths[i]))

\* C27 as claimed: in the final stage, with no posted sheet_choice that matches
\* a row, the default row has F24 >= 1 and the computation is not rejected
\* whenever some catalog width takes at least one cut.
C27_AsClaimed ==
    (ViewCalled /\ table.stage = "final" /\ table.matched = None /\ SomeWidthFits) =>
        /\ table.best_default # None
        /\ table.best_default[1].f24 >= 1
        /\ table.st = "final"

\* C28 as claimed: every row of price_form_view that takes a cut has
\* 1 <= F24 <= 30, and so has the F24_per_sheet_count written in the final stage.
C28_AsClaimed ==
    ViewCalled =>
        /\ \A i \in 1..Len(table.rows) : table.rows[i].f24 <= DefaultFmax
        /\ table.st = "final" =>
              table.F24_per_sheet_count >= 1 /\ table.F24_per_sheet_count <= DefaultFmax

\* ------------------------------------------ build_resolver and its wrapper

\* The orders in which a set of names may be walked.
NameOrders ==
    {s \in [1..Len(KeySeq) -> Keys] : \A i, j \in 1..Len(KeySeq) : i # j => s[i] # s[j]}

\* _extract(expr): the names of the expression that are no safe function; the
\* set is walked in the order ord.
_extract(e, ord) ==
    LET nodes == Walk(Expression(e))
        names == {nodes[i].id : i \in {j \in 1..Len(nodes) : nodes[j].kind = "Name"}}
                     \ _SAFE_FUNCS
    IN  SelectSeq(ord, LAMBDA n : n \in names)

\* What a call of resolve leaves behind: the cache, the value returned or the
\* exception raised, and the deepest frame.
Resolved(c, res, depth) == [cache |-> c, res |-> res, depth |-> depth]

RECURSIVE resolve(_, _, _, _, _)
RECURSIVE ResolveScope(_, _, _, _, _, _)

\* scope = {d: resolve(d) for d in deps}, from the i-th name on
ResolveScope(F, acc, ds, ord, i, depth) ==
    IF i > Len(ds) THEN acc
    ELSE CHOOSE a \in
             {IF acc2.res.st = "raise" THEN acc2
              ELSE ResolveScope(F, acc2, ds, ord, i + 1, depth)
                 : acc2 \in {Resolved(r.cache, r.res, Max2(acc.depth, r.depth))
                                : r \in {resolve(F, acc.cache, ds[i], ord, depth + 1)}}}
             : TRUE

\* resolve(name), called with cache c as frame number `depth`; the interpreter
\* refuses a frame beyond RecursionLimit.
resolve(F, c, name, ord, depth) ==
    IF depth > RecursionLimit
    THEN Resolved(c, Raise("RecursionError", "maximum recursion depth exceeded", name),
                  depth - 1)
    ELSE IF name \in DOMAIN c THEN Resolved(c, Ok(c[name]), depth)
    ELSE IF name \in DOMAIN F
    THEN CHOOSE a \in
             {IF s.res.st = "raise" THEN s
              ELSE CHOOSE b \in
                       {IF val.st = "raise" THEN Resolved(s.cache, val, s.depth)
                        ELSE Resolved((name :> val.v) @@ s.cache, val, s.depth)
                           : val \in {safe_eval(F[name],
                                                [d \in Range(_extract(F[name], ord))
                                                    |-> s.cache[d]]).res}}
                       : TRUE
                 : s \in {ResolveScope(F, Resolved(c, Ok(Number(0)), depth),
                                       _extract(F[name], ord), ord, 1, depth)}}
             : TRUE
    ELSE Resolved(c, Raise("ValueError", "Unknown name in expression", name), depth)

NoValue == [t |-> "none"]

\* FormulaEngine.get(key) of the price view: None for a key without formula and
\* for any exception of resolve, else the value as a number
get(F, c, key, ord) ==
    IF key \notin DOMAIN F THEN Resolved(c, Ok(NoValue), 0)
    ELSE CHOOSE a \in
             {IF r.res.st = "raise" THEN Resolved(r.cache, Ok(NoValue), r.depth) ELSE r
                 : r \in {resolve(F, c, key, ord, 1)}}
             : TRUE

\* resolve, cache, formulas_py = build_resolver(formulas, seed_vars)
InitResolver ==
    /\ pc = "resolver"
    /\ formulas \in FormulaSets
    /\ vars \in SeedSets
    /\ cache = vars
    /\ deps = EmptyMap
    /\ nEvals = [k \in Keys |-> 0]
    /\ last = NoOp
    /\ plan = <<>>
    /\ EvaluatorIdle
    /\ SheetIdle
    /\ ExcelIdle
    /\ LayoutIdle
    /\ PriorityIdle

\* resolve(name)
Resolve(name) ==
    /\ pc = "resolver"
    /\ \E ord \in NameOrders :
         \E r \in {resolve(formulas, cache, name, ord, 1)} :
           /\ cache' = r.cache
           /\ last' = [op |-> "resolve", key |-> name, keys |-> <<>>, res |-> r.res,
                       tried |-> <<>>, depth |-> r.depth, hit |-> name \in DOMAIN cache]
    /\ UNCHANGED <<expr, variables, out, formulas, deps, vars, nEvals, plan, pc>>
    /\ UNCHANGED <<sheetVars, excelVars, layoutVars, priorityVars>>

\* FormulaEngine(env).get(key)
Get(key) ==
    /\ pc = "resolver"
    /\ \E ord \in NameOrders :
         \E r \in {get(formulas, cache, key, ord)} :
           /\ cache' = r.cache
           /\ last' = [op |-> "get", key |-> key, keys |-> <<>>, res |-> r.res,
                       tried |-> <<>>, depth |-> r.depth, hit |-> key \in DOMAIN cache]
    /\ UNCHANGED <<expr, variables, out, formulas, deps, vars, nEvals, plan, pc>>
    /\ UNCHANGED <<sheetVars, excelVars, layoutVars, priorityVars>>

NextResolver == (\E name \in Keys : Resolve(name)) \/ (\E key \in Keys : Get(key))

SpecResolver == InitResolver /\ [][NextResolver]_vars_all

\* C24 as claimed: resolve(name) ends with a value or with an error that names
\* the key at fault, after at most one frame per formula and one more; it never
\* runs into the recursion limit of the interpreter.
C24_AsClaimed ==
    last.op = "resolve" =>
        /\ last.depth <= Cardinality(DOMAIN formulas) + 1
        /\ last.res.st = "raise" => last.res.exc = "ValueError" /\ last.res.arg \in Keys

\* ------------------------------------------ ExtraCharge.save and its priority

\* next_priority steps by 10
PriorityStep == 10

\* The two requests that save a new ExtraCharge each.
Requests == {"a", "b"}

\* The priorities of the rows stored before, and those a form may name.
StoredPriorities == {10, 20, 25}

\* next_priority(): the largest stored priority, or 0, plus 10
next_priority(rows) == (IF rows = {} THEN 0 ELSE SetMax(rows)) + PriorityStep

\* The table holds rows of distinct priorities; each request holds a new
\* object whose priority the form left empty or filled in.
InitPriority ==
    /\ pc = "priority"
    /\ charges \in SUBSET StoredPriorities
    /\ saves \in [Requests -> {[at |-> "new", priority |-> p, auto |-> p = None]
                                  : p \in {None} \cup {Some(n) : n \in {20, 30}}}]
    /\ EvaluatorIdle
    /\ EngineIdle
    /\ SheetIdle
    /\ ExcelIdle
    /\ LayoutIdle

\* save(), first half: self.priority = next_priority() in its own transaction,
\* which reads the table and takes no lock
AssignPriority(r) ==
    /\ pc = "priority"
    /\ saves[r].at = "new"
    /\ saves[r].priority = None
    /\ saves' = [saves EXCEPT ![r] = [at |-> "assigned",
                                      priority |-> Some(next_priority(charges)),
                                      auto |-> TRUE]]
    /\ UNCHANGED <<expr, variables, out, formulas, deps, vars, cache, nEvals, last, plan>>
    /\ UNCHANGED <<sheetVars, excelVars, layoutVars, charges, pc>>

\* save(), second half: super().save() inserts the row; the unique index on
\* priority refuses a value that is stored already (IntegrityError)
InsertRow(r) ==
    /\ pc = "priority"
    /\ saves[r].priority # None
    /\ saves[r].at \in {"new", "assigned"}
    /\ IF saves[r].priority[1] \in charges
       THEN /\ saves' = [saves EXCEPT ![r].at = "IntegrityError"]
            /\ UNCHANGED charges
       ELSE /\ saves' = [saves EXCEPT ![r].at = "saved"]
            /\ charges' = charges \cup {saves[r].priority[1]}
    /\ UNCHANGED <<expr, variables, out, formulas, deps, vars, cache, nEvals, last, plan>>
    /\ UNCHANGED <<sheetVars, excelVars, layoutVars, pc>>

NextPriority == \E r \in Requests : AssignPriority(r) \/ InsertRow(r)

SpecPriority == InitPriority /\ [][NextPriority]_vars_all

\* C26 as claimed: of two saves that both left the priority empty, whatever
\* their interleaving, neither is given the priority of the other and neither
\* fails on the unique index.
C26_AsClaimed ==
    (pc = "priority" /\ \A r \in Requests : saves[r].auto) =>
        /\ \A r \in Requests : saves[r].at # "IntegrityError"
        /\ \A r, s \in Requests :
              (r # s /\ saves[r].priority # None /\ saves[s].priority # None)
                  => saves[r].priority # saves[s].priority

====
